---- MODULE Spec2Model ----
(***************************************************************************)
(* Real-time conversation subsystem of the pet adoption server:            *)
(*   - the message store (server/storage.ts, shared schema),               *)
(*   - the REST handlers for conversations and messages (server/routes.ts),*)
(*   - the WebSocket presence registry, broadcast router and frame         *)
(*     handler (server/routes.ts).                                         *)
(* A REST handler is an async function: every `await` of a store call is   *)
(* one step (the store call takes effect and the handler runs on to its    *)
(* next await), so handlers of different requests interleave at their      *)
(* awaits, as they do over DatabaseStorage.  A store call may fail (the    *)
(* database rejects it); the handler's catch block then answers 500.       *)
(* Over MemStorage no store call awaits anything or fails: a handler runs  *)
(* to its answer before anything else happens, and the store starts with   *)
(* the rows of initSampleData.                                             *)
(* The client is the useChatSocket hook (client/src/hooks) and the         *)
(* MessageThread view (unnamed/part_002) of user 1 on conversation 1.      *)
(***************************************************************************)
EXTENDS Integers, Sequences, FiniteSets, Bags, TLC

\* ---------------------------------------------------------------- bounds
MaxConvs == 2
\* pets made by POST /api/pets
MaxPets == 1
MaxMsgs == 2
MaxReqs == 2
MaxConns == 2
MaxClock == 1
MaxIds == 2
\* frames in flight to a transport of the client while a new request is taken
MaxFrames == 1
\* entries of the view's list of typing users while a typing event is taken
MaxShown == 2
\* PATCH requests of the view that wait while a new message is sent
MaxPatches == 2
\* the last second of the client's clock
MaxTime == 5
\* a typing indicator expires after 3000 ms without a refresh, in seconds
TypingWindow == 3

\* ------------------------------------------------------- values and inputs
Null == 0
NaN == -1

Users == {1, 2, 3}
Adopters == {1, 3}
Owners == {2}
Pets == {1}
PetIds == {1, 2}
ConvIds == 1..MaxConvs
ReqConvIds == {1, 2, 3}
MsgIds == 1..MaxMsgs
Reqs == 1..MaxReqs
Conns == 1..MaxConns
Triples == PetIds \X Adopters \X Owners

\* the two implementations of IStorage: `storage` is a DatabaseStorage when
\* REPL_ID or DATABASE_URL is set, a MemStorage otherwise
Storages == {"DatabaseStorage", "MemStorage"}

\* undefined: what initSampleData reads as the id of a user or a conversation
\* (it reads .id of the Promise createUser and createConversation return)
UndefinedId == -2

\* the users with isAdmin
Admins == {3}

\* the pets of the database: the pets of Pets, of the owner of Owners
DatabasePets == [p \in Pets |-> [id |-> p, ownerId |-> CHOOSE o \in Owners : TRUE]]

\* MemStorage after initSampleData: 8 pets, the conversations about pets 1 and
\* 3 and 5 messages, all made at time at, then the counters at 3 and 6
SamplePets == [p \in 1..8 |-> [id |-> p, ownerId |-> UndefinedId]]

SampleConversations(at) ==
    [i \in 1..2 |-> [id |-> i, petId |-> IF i = 1 THEN 1 ELSE 3,
                     adopterId |-> UndefinedId, ownerId |-> UndefinedId,
                     lastMessageAt |-> at]]

SampleMessages(at) ==
    [i \in 1..5 |-> [id |-> i, conversationId |-> UndefinedId, senderId |-> UndefinedId,
                     isRead |-> FALSE, createdAt |-> at]]

\* the first id a request gets
FirstConversationId(kind) == IF kind = "MemStorage" THEN 3 ELSE 1

FirstMessageId(kind) == IF kind = "MemStorage" THEN 6 ELSE 1

\* A value of a JSON frame field: a number, or a string that is no number.
RawVals(S) == [t : {"num"}, v : S] \cup {[t |-> "str", v |-> NaN]}

\* parseInt of a frame field: the number itself, NaN for a non-numeric string.
ParseInt(raw) == IF raw.t = "num" THEN raw.v ELSE NaN

\* JavaScript ===  on numbers (and null): NaN equals nothing, itself included.
StrictEq(a, b) == a # NaN /\ b # NaN /\ a = b

\* The frames a client may send: {type, data: {userId, conversationId}}."other"
\* is a type the handler does not know, "unparseable" a frame JSON.parse rejects;
\* hasData is FALSE when the frame carries no data or null as data (reading a
\* field of it throws).
FrameTypes == {"auth", "typing", "stop_typing", "ping", "other", "unparseable"}
NoData == [t |-> "num", v |-> Null]
FramesOf(userIds, conversationIds) ==
    [type : {"auth", "typing", "stop_typing"}, hasData : {TRUE},
     userId : userIds, conversationId : conversationIds]
    \cup [type : FrameTypes, hasData : {FALSE}, userId : {NoData},
          conversationId : {NoData}]

\* the frames of user 1's client: its userId is the number 1, its
\* conversationId 1, 2 or a string that is no number
Frames == FramesOf(RawVals({1}) \ {[t |-> "str", v |-> NaN]}, RawVals({1, 2}))

\* The ascending sequences of at most n elements of the set of numbers S.
RECURSIVE AscSeqs(_, _)
AscSeqs(S, n) ==
    IF n = 0 THEN {<<>>}
    ELSE LET shorter == AscSeqs(S, n - 1)
         IN  shorter \cup UNION {{Append(s, x) :
                                     x \in {y \in S : \A k \in 1..Len(s) : s[k] < y}} :
                                 s \in shorter}

\* The messageIds arrays of a mark-read request body: ids of rows that exist,
\* ascending (<<>>: an empty array, or no array).  Of the rows with an id below
\* first, the sample messages of MemStorage, only the first one is named.
IdLists(msgs, first) ==
    AscSeqs({i \in DOMAIN msgs : i = 1 \/ i >= first}, MaxIds)

VARIABLES
    storage,        \* which implementation of IStorage the server runs on
    pets,           \* the pets table: id -> row
    currentPetId,   \* the id the next pet gets
    conversations,  \* the conversations table: id -> row
    messages,       \* the messages table: id -> row
    currentConversationId,  \* the id the next conversation gets
    currentMessageId,       \* the id the next message gets
    clock,          \* the server's wall clock (what new Date() reads)
    req,            \* the REST requests in flight, one per slot
    readyState,     \* readyState of every server-side WebSocket
    connections,    \* the presence registry: WebSocket -> {userId, conversationId}
    sent,           \* frames written to each WebSocket by the last step
    pubNew,         \* <<message id, conversation>> of the new_message events published
    last,           \* the last step: which handler ran and what it answered
    answered,       \* history: the conversation id the last answered create request
                    \* of each (petId, adopterId, ownerId) returned, Null if none
    prior           \* history: what answered held for the triple of the create
                    \* request of each slot when the request arrived

\* The client of one user in one conversation: the useChatSocket hook
\* (client/src/hooks/use-chat-socket.tsx).  The WebSocket object the client
\* creates as its k-th transport is connection k of the server.
VARIABLES
    mounted,          \* the hook's effect: "new", "mounted", or "torn" (cleaned up for good)
    socket,           \* socket.current: a transport, or Null
    wsState,          \* readyState of every client WebSocket ("NONE": not created)
    reconnectTimeout, \* reconnectTimeout.current: the transport whose onclose set it, or Null
    pingInterval,     \* pingInterval.current: the transport whose onopen set it, or Null
    reconnectTimers,  \* the armed setTimeout timers, named by the transport whose onclose armed them
    pingTimers,       \* the armed setInterval timers, named by the transport whose onopen armed them
    isConnected,
    isReconnecting,
    toServer,         \* frames sent on each transport the server has not handled yet
    firstSent,        \* type of the first frame sent on each transport ("": none yet)
    closedUncleanly,  \* the transports whose close event had wasClean false
    captured          \* the view's typingUsers in the render whose connect made each
                      \* transport: what the handleTyping its onmessage calls reads

ctl == <<mounted, socket, wsState, reconnectTimeout, pingInterval, reconnectTimers,
         pingTimers, isConnected, isReconnecting, firstSent, closedUncleanly,
         captured>>

\* The conversation view of that user (the MessageThread component): the
\* query cache of the conversation's message list and the requests it has in
\* flight.
VARIABLES
    log,         \* the query data of /api/messages/<conversation>: undefined, or a list
    fromServer,  \* frames sent to each transport the hook has not handled yet
    fetch,       \* the GET of the message list: "new" (no query yet), "pending"
                 \* (sent), "getConv" and "select" (the route awaits that store
                 \* call), "answered" (the response is on its way) or "idle"
    response,    \* what the answered GET carries: its status and list
    patches,     \* the bag of the messageIds of the PATCH .../read requests of the
                 \* view that have not reached the server
    effectDue,   \* the query data changed since the mark-read effect last ran
    posting,     \* the POST of the view has left it and has not reached the server
    posted,      \* the status of the answer to the view's POST that is on its way,
                 \* 0 if none is
    pet          \* the data of the view's pet query

thread == <<log, fromServer, fetch, response, patches, effectDue, posting, posted, pet>>

\* The typing indicators: the hook's map of the users who are typing and the
\* list the view shows.  Time is counted in seconds, the period of the sweep.
VARIABLES
    time,          \* Date.now() of the client, in seconds
    swept,        \* when the sweep interval last fired
    typingUsers,  \* the hook's typingUsers: userId -> timestamp
    shown,        \* the view's typingUsers: the list of the users shown as typing
    notified,     \* the users onStopTyping was called for in the last step
    handlersChanged  \* the view's typingUsers was set, which gives a new handleTyping
                     \* and so a new connect, since the hook's effect last ran

typing == <<time, swept, typingUsers, shown, notified, handlersChanged>>

\* The message input of the view and its typing effect.
VARIABLES
    newMessage,   \* the text of the input
    isSending,    \* a message is being sent: the input and the button are disabled
    isTyping,
    typingTimer,  \* the state typingTimer: a timeout handle, or Null
    seen,         \* the dependencies the typing effect last ran with
    armed,        \* the armed typing timeouts: handle -> when it is due
    ran,          \* the typing effect has run since the clock moved or an event came
    typedAt,      \* when the input last changed
    keyConnected, \* the hook was connected when the input last changed
    stalled,      \* the browser has stalled since the input last changed
    sinceKey      \* the types of the frames the view sent since the input last changed

composer == <<newMessage, isSending, isTyping, typingTimer, seen, armed, ran, typedAt,
              keyConnected, stalled, sinceKey>>

indicators == <<typing, composer>>

ui == <<thread, indicators>>

client == <<ctl, toServer, ui>>

history == <<answered, prior>>

store == <<storage, pets, conversations, messages, currentPetId,
           currentConversationId, currentMessageId>>

server == <<store, clock, req, readyState, connections, sent,
            pubNew, last, history>>

vars == <<server, client>>

\* ------------------------------------------------------------------ store
\* a table with no row
NoRows == [id \in {} |-> Null]

\* Map.set / insert: the table with the row under its id
WithRow(table, row) ==
    [id \in DOMAIN table \cup {row.id} |-> IF id = row.id THEN row ELSE table[id]]

\* the table without the rows of ids
WithoutRows(table, ids) == [id \in DOMAIN table \ ids |-> table[id]]

\* MemStorage / DatabaseStorage.getPet, getConversation: is there such a row
HasPet(table, id) == id \in DOMAIN table

HasConversation(convs, id) == id \in DOMAIN convs

GetConversation(convs, id) ==
    IF id \in DOMAIN convs THEN convs[id] ELSE Null

\* getConversationByParticipants: the ids of the rows with that triple
ConversationsByParticipants(convs, petId, adopterId, ownerId) ==
    {i \in DOMAIN convs : /\ convs[i].petId = petId
                          /\ convs[i].adopterId = adopterId
                          /\ convs[i].ownerId = ownerId}

\* the row getConversationByParticipants returns (find: the first), Null if none
GetConversationByParticipants(convs, petId, adopterId, ownerId) ==
    LET found == ConversationsByParticipants(convs, petId, adopterId, ownerId)
    IN  IF found = {} THEN Null
        ELSE CHOOSE i \in found : \A j \in found : i <= j

\* createConversation: a new row with the next id
CreateConversation(convs, id, petId, adopterId, ownerId, now) ==
    WithRow(convs, [id |-> id, petId |-> petId, adopterId |-> adopterId,
                    ownerId |-> ownerId, lastMessageAt |-> now])

\* updateConversationLastMessageTime
UpdateConversationLastMessageTime(convs, id, now) ==
    IF id \in DOMAIN convs
    THEN [convs EXCEPT ![id].lastMessageAt = now]
    ELSE convs

\* the row createMessage makes: unread, with the next id
NewMessage(id, conversationId, senderId, now) ==
    [id |-> id, conversationId |-> conversationId, senderId |-> senderId,
     isRead |-> FALSE, createdAt |-> now]

\* createMessage
CreateMessage(msgs, id, conversationId, senderId, now) ==
    WithRow(msgs, NewMessage(id, conversationId, senderId, now))

\* deletePet: the conversations about the pet go with it and their messages
\* with them (MemStorage's loops, ON DELETE CASCADE of the schema)
ConversationsOfPet(convs, petId) == {i \in DOMAIN convs : convs[i].petId = petId}

MessagesOfConversations(msgs, convIds) ==
    {i \in DOMAIN msgs : msgs[i].conversationId \in convIds}

\* (mutant) the test without the sender check
SentByOther_AnySender(msgs, id, userId) ==
    id \in DOMAIN msgs

\* the test of markMessagesAsRead's loop: message && message.senderId !== userId
SentByOther(msgs, id, userId) ==
    id \in DOMAIN msgs /\ msgs[id].senderId # userId

\* isRead of the row with that id set (no such row: nothing is updated)
SetIsRead(msgs, id) ==
    IF id \in DOMAIN msgs THEN [msgs EXCEPT ![id].isRead = TRUE] ELSE msgs

\* the body of markMessagesAsRead's loop, for one id
MarkOneAsRead(msgs, id, userId) ==
    IF SentByOther(msgs, id, userId) THEN SetIsRead(msgs, id) ELSE msgs

\* markMessagesAsRead(messageIds, userId)
RECURSIVE MarkMessagesAsRead(_, _, _)
MarkMessagesAsRead(msgs, messageIds, userId) ==
    IF messageIds = <<>> THEN msgs
    ELSE MarkMessagesAsRead(MarkOneAsRead(msgs, Head(messageIds), userId),
                            Tail(messageIds), userId)

\* (mutant) no participant check: every signed-in user passes
IsParticipant_Anyone(conversation, userId) ==
    userId # Null

\* the participant check of the message routes
IsParticipant(conversation, userId) ==
    userId = conversation.adopterId \/ userId = conversation.ownerId

\* --------------------------------------------------------- broadcast router
NoSent == [c \in Conns |-> <<>>]

\* no row: the data of an event that carries no message
NoMessage == NewMessage(Null, Null, Null, 0)

NewMessageEvent(message) == [type |-> "new_message", msg |-> message, ids |-> <<>>,
                             userId |-> [t |-> "num", v |-> Null]]
MessageReadEvent(ids, userId) == [type |-> "message_read", msg |-> NoMessage, ids |-> ids,
                                  userId |-> [t |-> "num", v |-> userId]]
TypingEvent(type, rawUserId) == [type |-> type, msg |-> NoMessage, ids |-> <<>>,
                                 userId |-> rawUserId]
PlainEvent(type) == [type |-> type, msg |-> NoMessage, ids |-> <<>>,
                     userId |-> [t |-> "num", v |-> Null]]

\* (mutant) no check of the connection's conversation
BroadcastTargets_AnyConversation(conns, rs, conversationId, excludeClient) ==
    {c \in DOMAIN conns : rs[c] = "OPEN" /\ c # excludeClient}

\* (mutant) no check of readyState
BroadcastTargets_AnyReadyState(conns, rs, conversationId, excludeClient) ==
    {c \in DOMAIN conns : /\ StrictEq(conns[c].conversationId, conversationId)
                          /\ c # excludeClient}

\* (mutant) the excluded client is not skipped
BroadcastTargets_NoExclude(conns, rs, conversationId, excludeClient) ==
    {c \in DOMAIN conns : /\ rs[c] = "OPEN"
                          /\ StrictEq(conns[c].conversationId, conversationId)}

\* the connections broadcastToConversation sends to
BroadcastTargets(conns, rs, conversationId, excludeClient) ==
    {c \in DOMAIN conns : /\ rs[c] = "OPEN"
                          /\ StrictEq(conns[c].conversationId, conversationId)
                          /\ c # excludeClient}

\* broadcastToConversation: what each WebSocket is sent
BroadcastToConversation(conns, rs, conversationId, message, excludeClient) ==
    [c \in Conns |->
        IF c \in BroadcastTargets(conns, rs, conversationId, excludeClient)
        THEN <<message>> ELSE <<>>]

\* ------------------------------------------------------------ REST requests
\* a slot of no request.  at is what new Date() gave when the store call the
\* request awaits was built, msg the row createMessage returned.
Idle == [kind |-> "idle", pc |-> "idle", user |-> Null, conv |-> Null,
         pet |-> Null, adopter |-> Null, owner |-> Null,
         ids |-> <<>>, i |-> 0, msg |-> NoMessage, at |-> 0, wrote |-> FALSE]

NoLast == [op |-> "init", id |-> 0, status |-> 0, wrote |-> FALSE, pub |-> FALSE,
           ftype |-> "", conv |-> Null, user |-> Null, rebound |-> FALSE]

RestStep(op, r, status, wrote, pub) ==
    [op |-> op, id |-> r, status |-> status, wrote |-> wrote, pub |-> pub,
     ftype |-> "", conv |-> Null, user |-> Null, rebound |-> FALSE]

\* new Date(): the clock does not go back
Now(t) == t \in clock..MaxClock

\* No store call of MemStorage awaits anything: a handler over MemStorage runs
\* from its first line to its answer before any other event is handled, so no
\* handler starts and no frame is handled while a request is in its slot.
Quiet ==
    storage = "MemStorage" =>
        /\ \A r \in Reqs : req[r].kind = "idle"
        /\ fetch \notin {"getConv", "select"}

\* a store call is rejected only by the database
Answers(ok) == storage = "MemStorage" => ok

\* ids are given out until MaxConvs conversations and MaxMsgs messages were made
ConversationIdLeft == currentConversationId < FirstConversationId(storage) + MaxConvs

MessageIdLeft == currentMessageId < FirstMessageId(storage) + MaxMsgs

InitCtl ==
    /\ mounted = "new"
    /\ socket = Null
    /\ wsState = [k \in Conns |-> "NONE"]
    /\ reconnectTimeout = Null
    /\ pingInterval = Null
    /\ reconnectTimers = {}
    /\ pingTimers = {}
    /\ isConnected = FALSE
    /\ isReconnecting = FALSE
    /\ toServer = [k \in Conns |-> <<>>]
    /\ firstSent = [k \in Conns |-> ""]
    /\ closedUncleanly = {}
    /\ captured = [k \in Conns |-> <<>>]

\* the query cache with no data, or with a list
Undefined == [defined |-> FALSE, list |-> <<>>]

\* the data of the pet query before the GET is answered, and the names a pet
\* may have
NoPet == [defined |-> FALSE, name |-> ""]
PetNames == {"Max"}
Data(list) == [defined |-> TRUE, list |-> list]

\* what the GET of the message list answers: a status, and with 200 the list
Response(status, list) == [status |-> status, list |-> list]

\* the typing effect has not run yet
NotRun == [run |-> FALSE, newMessage |-> "", isTyping |-> FALSE,
           typingTimer |-> Null, isConnected |-> FALSE]

InitUi ==
    /\ newMessage = ""
    /\ isSending = FALSE
    /\ isTyping = FALSE
    /\ typingTimer = Null
    /\ seen = NotRun
    /\ armed = [h \in {} |-> 0]
    /\ ran = FALSE
    /\ typedAt = 0
    /\ keyConnected = FALSE
    /\ stalled = FALSE
    /\ sinceKey = <<>>
    /\ time = 0
    /\ swept = 0
    /\ typingUsers = [u \in {} |-> 0]
    /\ shown = <<>>
    /\ notified = {}
    /\ handlersChanged = FALSE
    /\ log = Undefined
    /\ fromServer = [k \in Conns |-> <<>>]
    /\ fetch = "new"
    /\ response = Response(0, <<>>)
    /\ patches = EmptyBag
    /\ effectDue = FALSE
    /\ posting = FALSE
    /\ posted = 0
    /\ pet = NoPet

\* the next id of a table whose ids start at first
NextId(table, first) ==
    IF DOMAIN table = {} THEN first
    ELSE 1 + CHOOSE i \in DOMAIN table : \A j \in DOMAIN table : j <= i

\* the id the first pet a request makes gets: 9 after the 8 pets of
\* initSampleData, the next serial of the database
FirstPetId(kind) ==
    NextId(IF kind = "MemStorage" THEN SamplePets ELSE DatabasePets, 1)

\* pet ids are given out until MaxPets pets were made
PetIdLeft == currentPetId < FirstPetId(storage) + MaxPets

\* the server started at startClock over a store that holds these rows
InitStore(kind, startClock, petRows, convs, msgs) ==
    /\ InitCtl
    /\ InitUi
    /\ storage = kind
    /\ pets = petRows
    /\ currentPetId = NextId(petRows, 1)
    /\ conversations = convs
    /\ messages = msgs
    /\ currentConversationId = NextId(convs, FirstConversationId(kind))
    /\ currentMessageId = NextId(msgs, FirstMessageId(kind))
    /\ clock = startClock
    /\ req = [r \in Reqs |-> Idle]
    /\ readyState = [c \in Conns |-> "NEW"]
    /\ connections = [c \in {} |-> Null]
    /\ sent = NoSent
    /\ pubNew = {}
    /\ last = NoLast
    /\ answered = [t \in Triples |-> Null]
    /\ prior = [r \in Reqs |-> Null]

\* DatabaseStorage over a database with the pets and no conversation, or
\* MemStorage as its constructor leaves it
InitAt(kind, startClock) ==
    IF kind = "MemStorage"
    THEN InitStore(kind, startClock, SamplePets, SampleConversations(startClock),
                   SampleMessages(startClock))
    ELSE InitStore(kind, startClock, DatabasePets, NoRows, NoRows)

\* the server after construction
Init == \E kind \in Storages : InitAt(kind, 0)

\* Two conversations about pet 1 with the same owner, made at time at: adopter
\* 1 in the first, adopter 3 in the second (SpecConv reaches these stores:
\* TwoConversationsReached).
TwoConversations(kind, at) ==
    LET first == FirstConversationId(kind)
        made == [i \in {first, first + 1} |->
                    [id |-> i, petId |-> 1, adopterId |-> IF i = first THEN 1 ELSE 3,
                     ownerId |-> 2, lastMessageAt |-> at]]
    IN  IF kind = "MemStorage"
        THEN [i \in 1..(first + 1) |->
                 IF i < first THEN SampleConversations(at)[i] ELSE made[i]]
        ELSE made

\* the server once those two conversations exist, at startClock, with no
\* request in flight and the messages msgs
InitWith(kind, startClock, msgs) ==
    InitStore(kind, startClock, IF kind = "MemStorage" THEN SamplePets ELSE DatabasePets,
              TwoConversations(kind, startClock), msgs)

InitMsg ==
    \E kind \in Storages :
        InitWith(kind, 0, IF kind = "MemStorage" THEN SampleMessages(0) ELSE NoRows)

\* the server the view of a client talks to, over the database
InitDb == InitWith("DatabaseStorage", 0, NoRows)

\* what a request that ends here leaves in its slot, and the step's record
Finish(r, op, status, wrote, pub) ==
    /\ req' = [req EXCEPT ![r] = Idle]
    /\ last' = RestStep(op, r, status, wrote, pub)

Continue(r, op, next) ==
    /\ req' = [req EXCEPT ![r] = next]
    /\ last' = RestStep(op, r, 0, next.wrote, FALSE)

\* ---- POST /api/conversations
\* the (petId, adopterId, ownerId) of a create request
TripleOf(request) == <<request.pet, request.adopter, request.owner>>

\* isAuthenticated, insertConversationSchema.parse, then await storage.getPet
CreateConversationBegin(r, user, valid, petId, adopterId, ownerId) ==
    /\ req[r] = Idle
    /\ Quiet
    /\ IF user = Null THEN Finish(r, "createConv", 401, FALSE, FALSE)
       ELSE IF ~valid THEN Finish(r, "createConv", 400, FALSE, FALSE)
       ELSE Continue(r, "createConv",
                [Idle EXCEPT !.kind = "createConv", !.pc = "getPet", !.user = user,
                             !.pet = petId, !.adopter = adopterId, !.owner = ownerId])
    /\ prior' = [prior EXCEPT ![r] = IF user # Null /\ valid
                                     THEN answered[<<petId, adopterId, ownerId>>]
                                     ELSE Null]
    /\ sent' = NoSent
    /\ UNCHANGED <<store, clock, readyState, connections, pubNew, answered>>
    /\ UNCHANGED client

\* getPet answered: 404 without the pet, 403 for a non-participant,
\* then await storage.getConversationByParticipants
CreateConversationGetPet(r, ok) ==
    /\ req[r].kind = "createConv" /\ req[r].pc = "getPet"
    /\ Answers(ok)
    /\ IF ~ok THEN Finish(r, "createConv", 500, FALSE, FALSE)
       ELSE IF ~HasPet(pets, req[r].pet) THEN Finish(r, "createConv", 404, FALSE, FALSE)
       ELSE IF req[r].user # req[r].adopter /\ req[r].user # req[r].owner
            THEN Finish(r, "createConv", 403, FALSE, FALSE)
       ELSE Continue(r, "createConv", [req[r] EXCEPT !.pc = "lookup"])
    /\ sent' = NoSent
    /\ UNCHANGED <<store, clock, readyState, connections, pubNew, history>>
    /\ UNCHANGED client

\* getConversationByParticipants answered: the existing conversation is
\* returned, otherwise storage.createConversation is called, which reads
\* new Date() for lastMessageAt, and awaited
CreateConversationLookup(r, ok, now) ==
    /\ req[r].kind = "createConv" /\ req[r].pc = "lookup"
    /\ Answers(ok)
    /\ Now(now)
    /\ LET existing == GetConversationByParticipants(conversations, req[r].pet,
                                                     req[r].adopter, req[r].owner)
       IN  IF ~ok
           THEN /\ Finish(r, "createConv", 500, FALSE, FALSE)
                /\ clock' = clock
           ELSE IF existing # Null
                THEN /\ req' = [req EXCEPT ![r] = Idle]
                     /\ last' = [RestStep("createConv", r, 200, FALSE, FALSE)
                                    EXCEPT !.conv = existing]
                     /\ clock' = clock
           ELSE /\ Continue(r, "createConv", [req[r] EXCEPT !.pc = "create", !.at = now])
                /\ clock' = now
    /\ answered' = IF last'.status = 200
                   THEN [answered EXCEPT ![TripleOf(req[r])] = last'.conv]
                   ELSE answered
    /\ sent' = NoSent
    /\ UNCHANGED <<store, readyState, connections, pubNew, prior>>
    /\ UNCHANGED client

\* createConversation answered: 201 with the new row.  The database rejects
\* the insert of a row whose pet is gone (pet_id references pets); the id the
\* row would have got is not given out again.
CreateConversationCreate(r, ok) ==
    /\ req[r].kind = "createConv" /\ req[r].pc = "create"
    /\ Answers(ok)
    /\ ConversationIdLeft
    /\ IF ok /\ (storage = "DatabaseStorage" => HasPet(pets, req[r].pet))
       THEN /\ conversations' = CreateConversation(conversations, currentConversationId,
                                    req[r].pet, req[r].adopter, req[r].owner, req[r].at)
            /\ currentConversationId' = currentConversationId + 1
            /\ req' = [req EXCEPT ![r] = Idle]
            /\ last' = [RestStep("createConv", r, 201, TRUE, FALSE)
                           EXCEPT !.conv = currentConversationId]
       ELSE /\ UNCHANGED conversations
            /\ currentConversationId' = currentConversationId + (IF ok THEN 1 ELSE 0)
            /\ Finish(r, "createConv", 500, FALSE, FALSE)
    /\ answered' = IF last'.status = 201
                   THEN [answered EXCEPT ![TripleOf(req[r])] = currentConversationId]
                   ELSE answered
    /\ sent' = NoSent
    /\ UNCHANGED <<storage, pets, messages, currentPetId, currentMessageId>>
    /\ UNCHANGED <<clock, readyState, connections, pubNew, prior>>
    /\ UNCHANGED client

\* ---- POST /api/messages
\* isAuthenticated, insertMessageSchema.parse, then await storage.getConversation
SendMessageBeginWork(r, user, valid, conversationId) ==
    /\ req[r] = Idle
    /\ Quiet
    /\ IF user = Null THEN Finish(r, "send", 401, FALSE, FALSE)
       ELSE IF ~valid THEN Finish(r, "send", 400, FALSE, FALSE)
       ELSE Continue(r, "send",
                [Idle EXCEPT !.kind = "send", !.pc = "getConv", !.user = user,
                             !.conv = conversationId])
    /\ sent' = NoSent
    /\ UNCHANGED <<store, clock, readyState, connections, pubNew, history>>

SendMessageBegin(r, user, valid, conversationId) ==
    /\ SendMessageBeginWork(r, user, valid, conversationId)
    /\ UNCHANGED client

\* getConversation answered: 404 without it, 403 for a non-participant, then
\* storage.createMessage is called, which reads new Date() for createdAt, and
\* awaited
SendMessageGetConversation(r, ok, now) ==
    /\ req[r].kind = "send" /\ req[r].pc = "getConv"
    /\ Answers(ok)
    /\ Now(now)
    /\ IF ~ok THEN Finish(r, "send", 500, FALSE, FALSE) /\ clock' = clock
       ELSE IF ~HasConversation(conversations, req[r].conv)
            THEN Finish(r, "send", 404, FALSE, FALSE) /\ clock' = clock
       ELSE IF ~IsParticipant(GetConversation(conversations, req[r].conv), req[r].user)
            THEN Finish(r, "send", 403, FALSE, FALSE) /\ clock' = clock
       ELSE /\ Continue(r, "send", [req[r] EXCEPT !.pc = "insert", !.at = now])
            /\ clock' = now
    /\ sent' = NoSent
    /\ UNCHANGED <<store, readyState, connections, pubNew, history>>
    /\ UNCHANGED client

\* createMessage's insert answered.  The database rejects the insert of a row
\* whose conversation is gone (conversation_id references conversations); the
\* id is not given out again.  DatabaseStorage.createMessage then calls its own
\* updateConversationLastMessageTime, MemStorage.createMessage returns and the
\* route calls it; either call reads new Date().
SendMessageInsert(r, ok, now) ==
    /\ req[r].kind = "send" /\ req[r].pc = "insert"
    /\ Answers(ok)
    /\ MessageIdLeft
    /\ Now(now)
    /\ IF ok /\ (storage = "DatabaseStorage" => HasConversation(conversations, req[r].conv))
       THEN /\ messages' = CreateMessage(messages, currentMessageId, req[r].conv,
                                         req[r].user, req[r].at)
            /\ currentMessageId' = currentMessageId + 1
            /\ clock' = now
            /\ Continue(r, "send",
                   [req[r] EXCEPT !.pc = IF storage = "DatabaseStorage"
                                         THEN "createTouch" ELSE "touch",
                                  !.msg = NewMessage(currentMessageId, req[r].conv,
                                                     req[r].user, req[r].at),
                                  !.at = now,
                                  !.wrote = TRUE])
       ELSE /\ UNCHANGED <<messages, clock>>
            /\ currentMessageId' = currentMessageId + (IF ok THEN 1 ELSE 0)
            /\ Finish(r, "send", 500, req[r].wrote, FALSE)
    /\ sent' = NoSent
    /\ UNCHANGED <<storage, pets, conversations, currentPetId, currentConversationId>>
    /\ UNCHANGED <<readyState, connections, pubNew, history>>
    /\ UNCHANGED client

\* inside DatabaseStorage.createMessage: its own updateConversationLastMessageTime
\* answered; createMessage returns and the route calls
\* updateConversationLastMessageTime, which reads new Date()
SendMessageCreateTouch(r, ok, now) ==
    /\ req[r].kind = "send" /\ req[r].pc = "createTouch"
    /\ Now(now)
    /\ IF ok
       THEN /\ conversations' =
                  UpdateConversationLastMessageTime(conversations, req[r].conv, req[r].at)
            /\ clock' = now
            /\ Continue(r, "send", [req[r] EXCEPT !.pc = "touch", !.at = now])
       ELSE /\ UNCHANGED <<conversations, clock>>
            /\ Finish(r, "send", 500, req[r].wrote, FALSE)
    /\ sent' = NoSent
    /\ UNCHANGED <<storage, pets, messages, currentPetId, currentConversationId,
                   currentMessageId>>
    /\ UNCHANGED <<readyState, connections, pubNew, history>>
    /\ UNCHANGED client

\* the route's updateConversationLastMessageTime answered: broadcast
\* new_message with the row createMessage returned, then 201
SendMessageTouchWork(r, ok) ==
    /\ req[r].kind = "send" /\ req[r].pc = "touch"
    /\ Answers(ok)
    /\ IF ok
       THEN /\ conversations' =
                  UpdateConversationLastMessageTime(conversations, req[r].conv, req[r].at)
            /\ sent' = BroadcastToConversation(connections, readyState, req[r].conv,
                                               NewMessageEvent(req[r].msg), Null)
            /\ pubNew' = pubNew \cup {<<req[r].msg.id, req[r].conv>>}
            /\ req' = [req EXCEPT ![r] = Idle]
            /\ last' = [RestStep("send", r, 201, req[r].wrote, TRUE)
                           EXCEPT !.conv = req[r].conv]
       ELSE /\ UNCHANGED <<conversations, pubNew>>
            /\ sent' = NoSent
            /\ Finish(r, "send", 500, req[r].wrote, FALSE)
    /\ UNCHANGED <<storage, pets, messages, currentPetId, currentConversationId,
                   currentMessageId>>
    /\ UNCHANGED <<clock, readyState, connections, history>>

SendMessageTouch(r, ok) ==
    /\ SendMessageTouchWork(r, ok)
    /\ UNCHANGED client

\* ---- PATCH /api/messages/:conversationId/read
\* isAuthenticated, the messageIds check, then await storage.getConversation
MarkReadBeginWork(r, user, conversationId, messageIds) ==
    /\ req[r] = Idle
    /\ Quiet
    /\ IF user = Null THEN Finish(r, "markRead", 401, FALSE, FALSE)
       ELSE IF Len(messageIds) = 0 THEN Finish(r, "markRead", 400, FALSE, FALSE)
       ELSE Continue(r, "markRead",
                [Idle EXCEPT !.kind = "markRead", !.pc = "getConv", !.user = user,
                             !.conv = conversationId, !.ids = messageIds])
    /\ sent' = NoSent
    /\ UNCHANGED <<store, clock, readyState, connections, pubNew, history>>

MarkReadBegin(r, user, conversationId, messageIds) ==
    /\ MarkReadBeginWork(r, user, conversationId, messageIds)
    /\ UNCHANGED client

\* getConversation answered: 404 without it, 403 for a non-participant,
\* then await storage.markMessagesAsRead
MarkReadGetConversation(r, ok) ==
    /\ req[r].kind = "markRead" /\ req[r].pc = "getConv"
    /\ Answers(ok)
    /\ IF ~ok THEN Finish(r, "markRead", 500, FALSE, FALSE)
       ELSE IF ~HasConversation(conversations, req[r].conv)
            THEN Finish(r, "markRead", 404, FALSE, FALSE)
       ELSE IF ~IsParticipant(GetConversation(conversations, req[r].conv), req[r].user)
            THEN Finish(r, "markRead", 403, FALSE, FALSE)
       ELSE Continue(r, "markRead",
                [req[r] EXCEPT !.pc = "mark", !.i = 1])
    /\ sent' = NoSent
    /\ UNCHANGED <<store, clock, readyState, connections, pubNew, history>>
    /\ UNCHANGED client

\* markMessagesAsRead has returned: broadcast message_read, 204
MarkReadDone(r, wrote) ==
    /\ sent' = BroadcastToConversation(connections, readyState, req[r].conv,
                                       MessageReadEvent(req[r].ids, req[r].user), Null)
    /\ req' = [req EXCEPT ![r] = Idle]
    /\ last' = [RestStep("markRead", r, 204, wrote, TRUE) EXCEPT !.conv = req[r].conv]

\* the loop of DatabaseStorage.markMessagesAsRead is through with id i: it
\* awaits the select of the next id, or returns after the last
MarkReadNext(r, wrote) ==
    IF req[r].i = Len(req[r].ids)
    THEN MarkReadDone(r, wrote)
    ELSE /\ sent' = NoSent
         /\ Continue(r, "markRead",
                [req[r] EXCEPT !.pc = "mark", !.i = @ + 1, !.wrote = wrote])

\* markMessagesAsRead answered.  MemStorage: the forEach has gone through the
\* whole array.  DatabaseStorage: the select of id i has answered; for a
\* message of another sender the update is built and awaited, otherwise the
\* loop goes on.  A query the database rejects: 500.
MarkReadMarkWork(r, ok) ==
    /\ req[r].kind = "markRead" /\ req[r].pc = "mark"
    /\ Answers(ok)
    /\ IF ~ok
       THEN /\ UNCHANGED messages
            /\ sent' = NoSent
            /\ Finish(r, "markRead", 500, req[r].wrote, FALSE)
       ELSE IF storage = "MemStorage"
       THEN /\ messages' = MarkMessagesAsRead(messages, req[r].ids, req[r].user)
            /\ MarkReadDone(r, messages' # messages)
       ELSE IF SentByOther(messages, req[r].ids[req[r].i], req[r].user)
       THEN /\ UNCHANGED messages
            /\ sent' = NoSent
            /\ Continue(r, "markRead", [req[r] EXCEPT !.pc = "update"])
       ELSE /\ UNCHANGED messages
            /\ MarkReadNext(r, req[r].wrote)
    /\ UNCHANGED <<storage, pets, conversations, currentPetId, currentConversationId,
                   currentMessageId>>
    /\ UNCHANGED <<clock, readyState, connections, pubNew, history>>

MarkReadMark(r, ok) ==
    /\ MarkReadMarkWork(r, ok)
    /\ UNCHANGED client

\* the update of row i answered: the row, if it is still there, is read
MarkReadUpdateWork(r, ok) ==
    /\ req[r].kind = "markRead" /\ req[r].pc = "update"
    /\ IF ok
       THEN /\ messages' = SetIsRead(messages, req[r].ids[req[r].i])
            /\ MarkReadNext(r, req[r].wrote \/ messages' # messages)
       ELSE /\ UNCHANGED messages
            /\ sent' = NoSent
            /\ Finish(r, "markRead", 500, req[r].wrote, FALSE)
    /\ UNCHANGED <<storage, pets, conversations, currentPetId, currentConversationId,
                   currentMessageId>>
    /\ UNCHANGED <<clock, readyState, connections, pubNew, history>>

MarkReadUpdate(r, ok) ==
    /\ MarkReadUpdateWork(r, ok)
    /\ UNCHANGED client

\* ---- POST /api/pets
\* isAuthenticated, insertPetSchema.parse, then await storage.createPet with
\* the caller as owner
CreatePetBegin(r, user, valid) ==
    /\ req[r] = Idle
    /\ Quiet
    /\ IF user = Null THEN Finish(r, "createPet", 401, FALSE, FALSE)
       ELSE IF ~valid THEN Finish(r, "createPet", 400, FALSE, FALSE)
       ELSE Continue(r, "createPet",
                [Idle EXCEPT !.kind = "createPet", !.pc = "create", !.user = user])
    /\ sent' = NoSent
    /\ UNCHANGED <<store, clock, readyState, connections, pubNew, history>>
    /\ UNCHANGED client

\* createPet answered: 201 with the new row, which has the next id
CreatePetCreate(r, ok) ==
    /\ req[r].kind = "createPet" /\ req[r].pc = "create"
    /\ Answers(ok)
    /\ PetIdLeft
    /\ IF ok
       THEN /\ pets' = WithRow(pets, [id |-> currentPetId, ownerId |-> req[r].user])
            /\ currentPetId' = currentPetId + 1
            /\ Finish(r, "createPet", 201, TRUE, FALSE)
       ELSE /\ UNCHANGED <<pets, currentPetId>>
            /\ Finish(r, "createPet", 500, FALSE, FALSE)
    /\ sent' = NoSent
    /\ UNCHANGED <<storage, conversations, messages, currentConversationId,
                   currentMessageId>>
    /\ UNCHANGED <<clock, readyState, connections, pubNew, history>>
    /\ UNCHANGED client

\* ---- DELETE /api/pets/:id and DELETE /api/admin/pets/:id
\* isAuthenticated (the admin route: requireAdmin), then await storage.getPet
DeletePetBegin(r, user, asAdmin, petId) ==
    /\ req[r] = Idle
    /\ Quiet
    /\ IF user = Null THEN Finish(r, "deletePet", 401, FALSE, FALSE)
       ELSE IF asAdmin /\ user \notin Admins
            THEN Finish(r, "deletePet", 403, FALSE, FALSE)
       ELSE Continue(r, "deletePet",
                [Idle EXCEPT !.kind = IF asAdmin THEN "adminDeletePet" ELSE "deletePet",
                             !.pc = "getPet", !.user = user, !.pet = petId])
    /\ sent' = NoSent
    /\ UNCHANGED <<store, clock, readyState, connections, pubNew, history>>
    /\ UNCHANGED client

\* getPet answered: 404 without the pet, 403 from the owner's route for a user
\* who is not the owner, then await storage.deletePet
DeletePetGetPet(r, ok) ==
    /\ req[r].kind \in {"deletePet", "adminDeletePet"} /\ req[r].pc = "getPet"
    /\ Answers(ok)
    /\ IF ~ok THEN Finish(r, "deletePet", 500, FALSE, FALSE)
       ELSE IF ~HasPet(pets, req[r].pet) THEN Finish(r, "deletePet", 404, FALSE, FALSE)
       ELSE IF req[r].kind = "deletePet" /\ pets[req[r].pet].ownerId # req[r].user
            THEN Finish(r, "deletePet", 403, FALSE, FALSE)
       ELSE Continue(r, "deletePet", [req[r] EXCEPT !.pc = "delete"])
    /\ sent' = NoSent
    /\ UNCHANGED <<store, clock, readyState, connections, pubNew, history>>
    /\ UNCHANGED client

\* deletePet answered: the pet, its conversations and their messages are gone, 204
DeletePetDelete(r, ok) ==
    /\ req[r].kind \in {"deletePet", "adminDeletePet"} /\ req[r].pc = "delete"
    /\ Answers(ok)
    /\ IF ok
       THEN LET gone == ConversationsOfPet(conversations, req[r].pet)
            IN  /\ pets' = WithoutRows(pets, {req[r].pet})
                /\ conversations' = WithoutRows(conversations, gone)
                /\ messages' = WithoutRows(messages,
                                           MessagesOfConversations(messages, gone))
                /\ Finish(r, "deletePet", 204, TRUE, FALSE)
       ELSE /\ UNCHANGED <<pets, conversations, messages>>
            /\ Finish(r, "deletePet", 500, FALSE, FALSE)
    /\ sent' = NoSent
    /\ UNCHANGED <<storage, currentPetId, currentConversationId, currentMessageId>>
    /\ UNCHANGED <<clock, readyState, connections, pubNew, history>>
    /\ UNCHANGED client

\* ------------------------------------------------------------- WebSocket
WsStep(op, c, ftype, conv, pub) ==
    [op |-> op, id |-> c, status |-> 0, wrote |-> FALSE, pub |-> pub,
     ftype |-> ftype, conv |-> conv, user |-> Null, rebound |-> FALSE]

\* wss.on('connection'): the registry entry with no binding, then the welcome frame
OnConnection(c) ==
    /\ readyState[c] = "NEW"
    /\ Quiet
    /\ readyState' = [readyState EXCEPT ![c] = "OPEN"]
    /\ connections' = [d \in DOMAIN connections \cup {c} |->
                          IF d = c THEN [userId |-> Null, conversationId |-> Null]
                          ELSE connections[d]]
    /\ sent' = [NoSent EXCEPT ![c] = <<PlainEvent("connected")>>]
    /\ last' = WsStep("connection", c, "", Null, FALSE)
    /\ UNCHANGED <<store, clock, req, pubNew, history>>
    /\ UNCHANGED client

\* (mutant) an auth frame binds only a connection that has no binding yet
RegistryAfterFrame_KeepFirst(conns, c, f) ==
    IF f.type = "auth" /\ f.hasData /\ conns[c].conversationId = Null
    THEN [conns EXCEPT ![c] = [userId |-> ParseInt(f.userId),
                               conversationId |-> ParseInt(f.conversationId)]]
    ELSE conns

\* what the registry is after ws.on('message') handled frame f of connection c
RegistryAfterFrame(conns, c, f) ==
    IF f.type = "auth" /\ f.hasData
    THEN [conns EXCEPT ![c] = [userId |-> ParseInt(f.userId),
                               conversationId |-> ParseInt(f.conversationId)]]
    ELSE conns

\* (mutant) the pong is broadcast to the sender's conversation
SentForFrame_PongToAll(conns, rs, c, f) ==
    IF f.type \in {"typing", "stop_typing"} /\ f.hasData
    THEN BroadcastToConversation(conns, rs, ParseInt(f.conversationId),
                                 TypingEvent(f.type, f.userId), c)
    ELSE IF f.type = "ping"
    THEN BroadcastToConversation(conns, rs, conns[c].conversationId,
                                 PlainEvent("pong"), Null)
    ELSE NoSent

\* what ws.on('message') sends for frame f of connection c
SentForFrame(conns, rs, c, f) ==
    IF f.type \in {"typing", "stop_typing"} /\ f.hasData
    THEN BroadcastToConversation(conns, rs, ParseInt(f.conversationId),
                                 TypingEvent(f.type, f.userId), c)
    ELSE IF f.type = "ping"
    THEN [NoSent EXCEPT ![c] = <<PlainEvent("pong")>>]
    ELSE NoSent

\* ws.on('message') at work on frame f of the open connection c
HandleFrame(c, f) ==
    /\ readyState[c] = "OPEN"
    /\ Quiet
    /\ connections' = RegistryAfterFrame(connections, c, f)
    /\ sent' = SentForFrame(connections, readyState, c, f)
    /\ last' = [WsStep("message", c, f.type,
                       IF f.hasData THEN ParseInt(f.conversationId) ELSE Null,
                       f.type \in {"typing", "stop_typing"} /\ f.hasData)
                   EXCEPT !.user = IF f.hasData THEN ParseInt(f.userId) ELSE Null,
                          !.rebound = /\ f.type = "auth" /\ f.hasData
                                      /\ connections[c].conversationId # Null]
    /\ UNCHANGED <<store, clock, req, readyState, pubNew, history>>

\* ws.on('message'): a frame arrives on an open connection
OnMessage(c, f) ==
    /\ HandleFrame(c, f)
    /\ UNCHANGED client

\* the transport of an open connection goes down: the socket is no longer open,
\* its 'close' event has not been emitted yet
TransportDown(c) ==
    /\ readyState[c] = "OPEN"
    /\ Quiet
    /\ readyState' = [readyState EXCEPT ![c] = "CLOSING"]
    /\ sent' = NoSent
    /\ last' = WsStep("down", c, "", Null, FALSE)
    /\ UNCHANGED <<store, clock, req, connections, pubNew, history>>
    /\ UNCHANGED client

\* (mutant) the close handler leaves the registry entry in place
OnClose_KeepEntry(c) ==
    /\ readyState[c] = "CLOSING"
    /\ Quiet
    /\ readyState' = [readyState EXCEPT ![c] = "CLOSED"]
    /\ sent' = NoSent
    /\ last' = WsStep("close", c, "", Null, FALSE)
    /\ UNCHANGED <<store, clock, req, connections, pubNew, history>>
    /\ UNCHANGED client

\* ws.on('close'): the registry entry is deleted
OnClose(c) ==
    /\ readyState[c] = "CLOSING"
    /\ Quiet
    /\ readyState' = [readyState EXCEPT ![c] = "CLOSED"]
    /\ connections' = [d \in DOMAIN connections \ {c} |-> connections[d]]
    /\ sent' = NoSent
    /\ last' = WsStep("close", c, "", Null, FALSE)
    /\ UNCHANGED <<store, clock, req, pubNew, history>>
    /\ UNCHANGED client

WebSocketServer(c) ==
    \/ OnConnection(c)
    \/ \E f \in Frames : OnMessage(c, f)
    \/ TransportDown(c)
    \/ OnClose(c)

\* the frames of the clients of users 1 and 2
AuthFrames == FramesOf(RawVals({1, 2}) \ {[t |-> "str", v |-> NaN]}, RawVals({1, 2}))

\* the WebSocket server with the clients of two users
WebSocketServerOfTwo(c) ==
    \/ OnConnection(c)
    \/ \E f \in AuthFrames : OnMessage(c, f)
    \/ TransportDown(c)
    \/ OnClose(c)

CreateConversationRoute(r) ==
    \/ \E user \in Users \cup {Null}, valid \in BOOLEAN, petId \in PetIds,
          adopterId \in Adopters, ownerId \in Owners :
            CreateConversationBegin(r, user, valid, petId, adopterId, ownerId)
    \/ \E ok \in BOOLEAN : CreateConversationGetPet(r, ok)
    \/ \E ok \in BOOLEAN, now \in 0..MaxClock : CreateConversationLookup(r, ok, now)
    \/ \E ok \in BOOLEAN : CreateConversationCreate(r, ok)

SendMessageRoute(r, conversationIds) ==
    \/ \E user \in Users \cup {Null}, valid \in BOOLEAN, conversationId \in conversationIds :
            SendMessageBegin(r, user, valid, conversationId)
    \/ \E ok \in BOOLEAN, now \in 0..MaxClock : SendMessageGetConversation(r, ok, now)
    \/ \E ok \in BOOLEAN, now \in 0..MaxClock : SendMessageInsert(r, ok, now)
    \/ \E ok \in BOOLEAN, now \in 0..MaxClock : SendMessageCreateTouch(r, ok, now)
    \/ \E ok \in BOOLEAN : SendMessageTouch(r, ok)

\* the route for ids that name no message another user sent: no row is updated
MarkReadRouteOfNoRow(r, idLists) ==
    \/ \E user \in Users \cup {Null}, conversationId \in ReqConvIds,
          messageIds \in idLists :
            MarkReadBegin(r, user, conversationId, messageIds)
    \/ \E ok \in BOOLEAN : MarkReadGetConversation(r, ok)
    \/ \E ok \in BOOLEAN : MarkReadMark(r, ok)

MarkReadRoute(r, idLists) ==
    \/ MarkReadRouteOfNoRow(r, idLists)
    \/ \E ok \in BOOLEAN : MarkReadUpdate(r, ok)

\* a new request takes the lowest free slot
Free(r) == req[r] = Idle => \A q \in 1..(r - 1) : req[q] # Idle

CreatePetRoute(r) ==
    \/ \E user \in Users \cup {Null}, valid \in BOOLEAN : CreatePetBegin(r, user, valid)
    \/ \E ok \in BOOLEAN : CreatePetCreate(r, ok)

DeletePetRoute(r) ==
    \/ \E user \in Users \cup {Null}, asAdmin \in BOOLEAN, petId \in PetIds :
            DeletePetBegin(r, user, asAdmin, petId)
    \/ \E ok \in BOOLEAN : DeletePetGetPet(r, ok)
    \/ \E ok \in BOOLEAN : DeletePetDelete(r, ok)

\* the conversation route and the routes that delete a pet, on the server after
\* construction
NextConv == \E r \in Reqs : Free(r) /\ (CreateConversationRoute(r) \/ DeletePetRoute(r))

SpecConv == Init /\ [][NextConv]_vars

\* The pet routes and the conversation route, one request at a time: pets are
\* made and deleted, and conversations are made about the pets there are.
NextPets ==
    \E r \in {1} : CreatePetRoute(r) \/ CreateConversationRoute(r) \/ DeletePetRoute(r)

SpecPets == Init /\ [][NextPets]_vars

\* The message routes on the two conversations, one request at a time: messages
\* are sent to conversation 1 or to a conversation that is no row, mark-read
\* requests name any of ReqConvIds.
NextMsg ==
    \E r \in {1} : \/ SendMessageRoute(r, {1, 3})
                   \/ MarkReadRoute(r, IdLists(messages, FirstMessageId(storage)))
                   \/ DeletePetRoute(r)

SpecMsg == InitMsg /\ [][NextMsg]_vars

\* The message routes of the participants of conversation 1 and the owner's
\* route that deletes its pet, each request in its own slot and all within one
\* reading of the clock: over DatabaseStorage a request runs between the awaits
\* of another.
OverlapSend(r) ==
    \/ \E user \in {1, 2} : SendMessageBegin(r, user, TRUE, 1)
    \/ \E ok \in BOOLEAN : SendMessageGetConversation(r, ok, clock)
    \/ \E ok \in BOOLEAN : SendMessageInsert(r, ok, clock)
    \/ \E ok \in BOOLEAN : SendMessageCreateTouch(r, ok, clock)
    \/ \E ok \in BOOLEAN : SendMessageTouch(r, ok)

OverlapMarkRead(r) ==
    \/ \E user \in {1, 2}, messageIds \in IdLists(messages, 1) :
            MarkReadBegin(r, user, 1, messageIds)
    \/ \E ok \in BOOLEAN : MarkReadGetConversation(r, ok)
    \/ \E ok \in BOOLEAN : MarkReadMark(r, ok)
    \/ \E ok \in BOOLEAN : MarkReadUpdate(r, ok)

OverlapDeletePet(r) ==
    \/ \E user \in Owners : DeletePetBegin(r, user, FALSE, 1)
    \/ \E ok \in BOOLEAN : DeletePetGetPet(r, ok)
    \/ \E ok \in BOOLEAN : DeletePetDelete(r, ok)

NextOverlap ==
    \E r \in Reqs :
        /\ Free(r)
        /\ (OverlapSend(r) \/ OverlapMarkRead(r) \/ OverlapDeletePet(r))

SpecOverlap == InitDb /\ [][NextOverlap]_vars

\* The WebSocket server and the mark-read route on the two conversations, while
\* the store holds no message: the route publishes message_read for the ids it
\* is given, whether or not such rows exist.
NextWs ==
    \/ \E c \in Conns : WebSocketServer(c)
    \/ \E r \in {1} : MarkReadRouteOfNoRow(r, {<<>>, <<1>>})

SpecWs == InitMsg /\ [][NextWs]_vars

\* ------------------------------------------------- client: useChatSocket
\* the hook's userId and conversationId: user 1 in conversation 1
Me == 1
MyConversation == 1

\* the frames the hook sends
AuthFrame == [type |-> "auth", hasData |-> TRUE,
              userId |-> [t |-> "num", v |-> Me],
              conversationId |-> [t |-> "num", v |-> MyConversation]]
PingFrame == [type |-> "ping", hasData |-> FALSE, userId |-> NoData,
              conversationId |-> NoData]

ClientStep(op, k) == [NoLast EXCEPT !.op = op, !.id = k]

\* WebSocket.close(): a socket that is connecting or open starts closing,
\* close() of any other socket does nothing
Close(ws, k) ==
    IF k # Null /\ ws[k] \in {"CONNECTING", "OPEN"}
    THEN [ws EXCEPT ![k] = "CLOSING"]
    ELSE ws

\* ws.send on transport k
Send(k, frame) ==
    /\ toServer' = [toServer EXCEPT ![k] = Append(@, frame)]
    /\ firstSent' = [firstSent EXCEPT ![k] = IF @ = "" THEN frame.type ELSE @]

\* new WebSocket(wsUrl) gives the next transport
Fresh(k) == wsState[k] = "NONE" /\ \A j \in 1..(k - 1) : wsState[j] # "NONE"

\* connect() of a render in which the view's typingUsers was list, called when
\* the armed reconnect timers are timers: socket.current is closed, the timer
\* reconnectTimeout.current is cleared, transport k is created with the
\* handlers of that render
Connect(k, timers, list) ==
    /\ Fresh(k)
    /\ captured' = [captured EXCEPT ![k] = list]
    /\ wsState' = [Close(wsState, socket) EXCEPT ![k] = "CONNECTING"]
    /\ socket' = k
    /\ reconnectTimers' = timers \ {reconnectTimeout}
    /\ reconnectTimeout' = Null

\* the effect runs for the first time: connect()
Mount(k) ==
    /\ mounted = "new"
    /\ mounted' = "mounted"
    /\ Connect(k, reconnectTimers, shown)
    /\ sent' = NoSent
    /\ last' = ClientStep("mount", k)
    /\ UNCHANGED <<pingInterval, pingTimers, isConnected, isReconnecting,
                   toServer, firstSent, closedUncleanly>>
    /\ UNCHANGED <<store, clock, req, readyState, connections,
                   pubNew, history>>
    /\ UNCHANGED ui

\* A dependency of the effect changed (userId, conversationId or connect, which
\* changes with every callback the consumer passes): the cleanup runs, then the
\* effect again.  The cleanup closes socket.current and clears both timers;
\* connect() then finds socket.current and reconnectTimeout.current null.
RerunWork(k) ==
    /\ mounted = "mounted"
    /\ Connect(k, reconnectTimers, shown)
    /\ pingTimers' = pingTimers \ {pingInterval}
    /\ pingInterval' = Null
    /\ sent' = NoSent
    /\ last' = ClientStep("rerun", k)
    /\ UNCHANGED <<mounted, isConnected, isReconnecting, toServer, firstSent,
                   closedUncleanly>>
    /\ UNCHANGED <<store, clock, req, readyState, connections,
                   pubNew, history>>

Rerun(k) ==
    /\ RerunWork(k)
    /\ UNCHANGED ui

\* the cleanup of the hook's effect when the consumer unmounts
UnmountWork ==
    /\ mounted = "mounted"
    /\ mounted' = "torn"
    /\ wsState' = Close(wsState, socket)
    /\ socket' = Null
    /\ reconnectTimers' = reconnectTimers \ {reconnectTimeout}
    /\ reconnectTimeout' = Null
    /\ pingTimers' = pingTimers \ {pingInterval}
    /\ pingInterval' = Null
    /\ sent' = NoSent
    /\ last' = ClientStep("unmount", Null)
    /\ UNCHANGED <<isConnected, isReconnecting, toServer, firstSent, closedUncleanly,
                   captured>>
    /\ UNCHANGED <<store, clock, req, readyState, connections,
                   pubNew, history>>

\* the consumer unmounts: the cleanup runs and the effect does not run again
Unmount ==
    /\ UnmountWork
    /\ UNCHANGED ui

\* ws.onopen of transport k, once the server has accepted it: the auth frame is
\* sent and the ping interval is set
OnOpen(k) ==
    /\ wsState[k] = "CONNECTING"
    /\ readyState[k] # "NEW"
    /\ wsState' = [wsState EXCEPT ![k] = "OPEN"]
    /\ isConnected' = TRUE
    /\ isReconnecting' = FALSE
    /\ Send(k, AuthFrame)
    /\ pingInterval' = k
    /\ pingTimers' = pingTimers \cup {k}
    /\ sent' = NoSent
    /\ last' = ClientStep("open", k)
    /\ UNCHANGED <<mounted, socket, reconnectTimeout, reconnectTimers, closedUncleanly,
                   captured>>
    /\ UNCHANGED <<store, clock, req, readyState, connections,
                   pubNew, history>>
    /\ UNCHANGED ui

\* (mutant) onclose never sets the reconnect timer
OnCloseEvent_NoRetry(k, wasClean) ==
    /\ wsState[k] \in {"CONNECTING", "OPEN", "CLOSING"}
    /\ wasClean => firstSent[k] # ""
    /\ wsState' = [wsState EXCEPT ![k] = "CLOSED"]
    /\ isConnected' = FALSE
    /\ pingTimers' = pingTimers \ {pingInterval}
    /\ pingInterval' = Null
    /\ closedUncleanly' = IF wasClean THEN closedUncleanly
                          ELSE closedUncleanly \cup {k}
    /\ sent' = NoSent
    /\ last' = [ClientStep("closed", k) EXCEPT !.wrote = wasClean]
    /\ UNCHANGED <<isReconnecting, reconnectTimeout, reconnectTimers>>
    /\ UNCHANGED <<mounted, socket, toServer, firstSent, captured>>
    /\ UNCHANGED <<store, clock, req, readyState, connections,
                   pubNew, history>>
    /\ UNCHANGED ui

\* ws.onclose of transport k: the connection failed before it opened, dropped,
\* or finished closing.  A transport that never opened never closes cleanly.
\* The ping interval is cleared; an unclean close sets the reconnect timer.
OnCloseEvent(k, wasClean) ==
    /\ wsState[k] \in {"CONNECTING", "OPEN", "CLOSING"}
    /\ wasClean => firstSent[k] # ""
    /\ wsState' = [wsState EXCEPT ![k] = "CLOSED"]
    /\ isConnected' = FALSE
    /\ pingTimers' = pingTimers \ {pingInterval}
    /\ pingInterval' = Null
    /\ IF wasClean
       THEN UNCHANGED <<isReconnecting, reconnectTimeout, reconnectTimers,
                        closedUncleanly>>
       ELSE /\ isReconnecting' = TRUE
            /\ reconnectTimeout' = k
            /\ reconnectTimers' = reconnectTimers \cup {k}
            /\ closedUncleanly' = closedUncleanly \cup {k}
    /\ sent' = NoSent
    /\ last' = [ClientStep("closed", k) EXCEPT !.wrote = wasClean]
    /\ UNCHANGED <<mounted, socket, toServer, firstSent, captured>>
    /\ UNCHANGED <<store, clock, req, readyState, connections,
                   pubNew, history>>
    /\ UNCHANGED ui

\* the reconnect timer t fires: connect() of the render that made transport t
ReconnectFire(t, k) ==
    /\ t \in reconnectTimers
    /\ Connect(k, reconnectTimers \ {t}, captured[t])
    /\ sent' = NoSent
    /\ last' = ClientStep("reconnect", k)
    /\ UNCHANGED <<mounted, pingInterval, pingTimers, isConnected, isReconnecting,
                   toServer, firstSent, closedUncleanly>>
    /\ UNCHANGED <<store, clock, req, readyState, connections,
                   pubNew, history>>
    /\ UNCHANGED ui

\* The ping interval p fires: a ping is sent if its transport is open.  The
\* interval is 30 s: the server has handled the frames sent before.
PingFire(p) ==
    /\ p \in pingTimers
    /\ toServer[p] = <<>>
    /\ IF wsState[p] = "OPEN"
       THEN Send(p, PingFrame)
       ELSE UNCHANGED <<toServer, firstSent>>
    /\ sent' = NoSent
    /\ last' = ClientStep("ping", p)
    /\ UNCHANGED <<mounted, socket, wsState, reconnectTimeout, pingInterval,
                   reconnectTimers, pingTimers, isConnected, isReconnecting,
                   closedUncleanly, captured>>
    /\ UNCHANGED <<store, clock, req, readyState, connections,
                   pubNew, history>>
    /\ UNCHANGED ui

\* the server accepts transport c of the client
ServerAccepts(c) ==
    /\ wsState[c] \in {"CONNECTING", "CLOSING"}
    /\ OnConnection(c)

\* the server handles the next frame the client sent on transport c
ServerOnMessage(c) ==
    /\ toServer[c] # <<>>
    /\ HandleFrame(c, Head(toServer[c]))
    /\ toServer' = [toServer EXCEPT ![c] = Tail(@)]
    /\ UNCHANGED <<ctl, ui>>

\* the server's side of transport c goes down once the client's has
ServerTransportDown(c) ==
    /\ wsState[c] \in {"CLOSING", "CLOSED"}
    /\ TransportDown(c)

UseChatSocket(k) ==
    \/ Mount(k)
    \/ Rerun(k)
    \/ Unmount
    \/ OnOpen(k)
    \/ \E wasClean \in BOOLEAN : OnCloseEvent(k, wasClean)
    \/ \E t \in Conns : ReconnectFire(t, k)
    \/ PingFire(k)

\* the hook of one client and the WebSocket server
NextCtl ==
    \E k \in Conns :
        \/ UseChatSocket(k)
        \/ ServerAccepts(k)
        \/ ServerOnMessage(k)
        \/ ServerTransportDown(k)
        \/ OnClose(k)

SpecCtl == InitDb /\ [][NextCtl]_vars

\* A transport the hook closed reports its close in either way.  The server
\* never closes a connection itself, so any other transport closes only
\* uncleanly (it fails or drops), and only while a transport is left for each
\* armed reconnect timer and one more: the network fails finitely often.
MayClose(k, wasClean) ==
    IF wsState[k] = "CLOSING"
    THEN TRUE
    ELSE /\ ~wasClean
         /\ Cardinality({j \in Conns : wsState[j] = "NONE"})
               > Cardinality(reconnectTimers)

CloseEventWhileStable(k, wasClean) ==
    /\ MayClose(k, wasClean)
    /\ OnCloseEvent(k, wasClean)

\* The hook and the server on a network that fails finitely often.  Pings are
\* left out: a ping follows the auth frame on its transport and the server
\* answers it without changing the registry.
NextLive ==
    \E k \in Conns :
        \/ Mount(k)
        \/ Rerun(k)
        \/ Unmount
        \/ OnOpen(k)
        \/ \E wasClean \in BOOLEAN : CloseEventWhileStable(k, wasClean)
        \/ \E t \in Conns : ReconnectFire(t, k)
        \/ ServerAccepts(k)
        \/ ServerOnMessage(k)
        \/ ServerTransportDown(k)
        \/ OnClose(k)

\* The server accepts every connection and handles every frame, the browser
\* reports every accepted connection open, and an armed reconnect timer fires.
SpecLive ==
    /\ InitDb
    /\ [][NextLive]_vars
    /\ \A k \in Conns :
          /\ WF_vars(ServerAccepts(k))
          /\ WF_vars(OnOpen(k))
          /\ WF_vars(ServerOnMessage(k))
          /\ WF_vars(\E t \in Conns : ReconnectFire(t, k))

\* A field of data that is not there: data is an empty object, or a number or
\* a string (destructuring it gives undefined, and parseInt(undefined) is NaN).
Missing == [t |-> "none", v |-> NaN]

\* the frames whose data is there but holds neither field
FieldlessFrames ==
    [type : {"auth", "typing", "stop_typing"}, hasData : {TRUE},
     userId : {Missing}, conversationId : {Missing}]

\* the WebSocket server with the clients of two users, which also send frames
\* that are no JSON, frames without data and frames whose data holds no field
WebSocketServerOfAny(c) ==
    \/ OnConnection(c)
    \/ \E f \in AuthFrames \cup FieldlessFrames : OnMessage(c, f)
    \/ TransportDown(c)
    \/ OnClose(c)

NextFrames == \E c \in Conns : WebSocketServerOfAny(c)

SpecFrames == InitDb /\ [][NextFrames]_vars

\* the WebSocket server alone, with the clients of two users
NextAuth == \E c \in Conns : WebSocketServerOfTwo(c)

SpecAuth == InitDb /\ [][NextAuth]_vars

\* ------------------------------------------------- client: MessageThread
\* the other participant of the hook's conversation
Peer == 2

\* Array.prototype.sort by createdAt is stable: a row goes behind the rows that
\* are not newer
InsertByCreatedAt(list, m) ==
    LET k == Cardinality({i \in 1..Len(list) : list[i].createdAt <= m.createdAt})
    IN  SubSeq(list, 1, k) \o <<m>> \o SubSeq(list, k + 1, Len(list))

RECURSIVE SortByCreatedAt(_)
SortByCreatedAt(rows) ==
    IF rows = <<>> THEN <<>>
    ELSE InsertByCreatedAt(SortByCreatedAt(SubSeq(rows, 1, Len(rows) - 1)),
                           rows[Len(rows)])

\* the rows of a table with these ids, in the order of the ids (the order in
\* which the rows were inserted)
RECURSIVE RowsInIdOrder(_, _)
RowsInIdOrder(table, ids) ==
    IF ids = {} THEN <<>>
    ELSE LET lowest == CHOOSE i \in ids : \A j \in ids : i <= j
         IN  <<table[lowest]>> \o RowsInIdOrder(table, ids \ {lowest})

\* getConversationMessages: the rows of the conversation, oldest first
ConversationRows(msgs, conversationId) ==
    RowsInIdOrder(msgs, {i \in DOMAIN msgs : msgs[i].conversationId = conversationId})

\* (mutant) getConversationMessages without the sort
GetConversationMessages_Unsorted(msgs, conversationId) ==
    ConversationRows(msgs, conversationId)

GetConversationMessages(msgs, conversationId) ==
    SortByCreatedAt(ConversationRows(msgs, conversationId))

\* what the events the server sent in a step add to the frames in flight
Delivered(frames, out) == [c \in Conns |-> frames[c] \o out[c]]

\* oldData.some(msg => msg.id === message.id)
HasId(list, id) == \E i \in 1..Len(list) : list[i].id = id

\* messageIds.includes(id)
Includes(messageIds, id) == \E i \in 1..Len(messageIds) : messageIds[i] = id

\* (mutant) the updater of handleNewMessage without the check for the id
HandleNewMessage_NoCheck(oldData, message) ==
    IF ~oldData.defined THEN Data(<<message>>)
    ELSE Data(Append(oldData.list, message))

\* the updater handleNewMessage gives to setQueryData
HandleNewMessage(oldData, message) ==
    IF ~oldData.defined THEN Data(<<message>>)
    ELSE IF HasId(oldData.list, message.id) THEN oldData
    ELSE Data(Append(oldData.list, message))

\* (mutant) handleMessageRead without the check of the sender
HandleMessageRead_AnySender(oldData, messageIds, userId, currentUserId) ==
    IF userId # currentUserId /\ oldData.defined
    THEN Data([i \in 1..Len(oldData.list) |->
                  IF Includes(messageIds, oldData.list[i].id)
                  THEN [oldData.list[i] EXCEPT !.isRead = TRUE]
                  ELSE oldData.list[i]])
    ELSE oldData

\* handleMessageRead({messageIds, userId}): what the query data becomes
HandleMessageRead(oldData, messageIds, userId, currentUserId) ==
    IF userId # currentUserId /\ oldData.defined
    THEN Data([i \in 1..Len(oldData.list) |->
                  IF /\ Includes(messageIds, oldData.list[i].id)
                     /\ oldData.list[i].senderId = currentUserId
                  THEN [oldData.list[i] EXCEPT !.isRead = TRUE]
                  ELSE oldData.list[i]])
    ELSE oldData

\* the ids of the unread messages of the list another user sent
UnreadIds(list, currentUserId) ==
    LET unread == {i \in 1..Len(list) : ~list[i].isRead /\ list[i].senderId # currentUserId}
        isUnread(m) == ~m.isRead /\ m.senderId # currentUserId
        rows == SelectSeq(list, isUnread)
    IN  [i \in 1..Len(rows) |-> rows[i].id]

\* the frame the hook handles next on transport k
Arrived(k, type) ==
    /\ wsState[k] \in {"OPEN", "CLOSING"}
    /\ fromServer[k] # <<>>
    /\ Head(fromServer[k]).type = type

\* a PATCH .../read with these messageIds leaves the view
Patch(messageIds) == SetToBag({messageIds})

\* ws.onmessage, case new_message: handleNewMessage merges the message into the
\* query data and asks the server to mark a message of the other user as read
OnNewMessage(k) ==
    /\ Arrived(k, "new_message")
    /\ LET message == Head(fromServer[k]).msg
           new == HandleNewMessage(log, message)
       IN  /\ log' = new
           /\ effectDue' = (effectDue \/ new # log)
           /\ patches' = IF message.senderId # Me
                         THEN patches (+) Patch(<<message.id>>)
                         ELSE patches
           /\ last' = [ClientStep("new_message", k)
                          EXCEPT !.status = message.id,
                                 !.wrote = log.defined /\ HasId(log.list, message.id)]
    /\ fromServer' = [fromServer EXCEPT ![k] = Tail(@)]
    /\ sent' = NoSent
    /\ UNCHANGED <<ctl, toServer, fetch, response, posting, posted, pet>>
    /\ UNCHANGED indicators
    /\ UNCHANGED <<store, clock, req, readyState, connections,
                   pubNew, history>>

\* ws.onmessage, case message_read: handleMessageRead
OnMessageRead(k) ==
    /\ Arrived(k, "message_read")
    /\ LET data == Head(fromServer[k])
           new == HandleMessageRead(log, data.ids, ParseInt(data.userId), Me)
       IN  /\ log' = new
           /\ effectDue' = (effectDue \/ new # log)
           /\ last' = [ClientStep("message_read", k)
                          EXCEPT !.user = ParseInt(data.userId),
                                 !.status = Len(data.ids),
                                 !.wrote = new # log]
    /\ fromServer' = [fromServer EXCEPT ![k] = Tail(@)]
    /\ sent' = NoSent
    /\ UNCHANGED <<ctl, toServer, fetch, response, patches, posting, posted, pet>>
    /\ UNCHANGED indicators
    /\ UNCHANGED <<store, clock, req, readyState, connections,
                   pubNew, history>>

\* The effect that marks messages as read, in the render after the query data
\* changed: a PATCH for the unread messages of the other user the list of that
\* render holds, if there are any.
MarkReadEffect ==
    /\ mounted = "mounted"
    /\ effectDue
    /\ effectDue' = FALSE
    /\ patches' = IF UnreadIds(log.list, Me) # <<>>
                  THEN patches (+) Patch(UnreadIds(log.list, Me))
                  ELSE patches
    /\ sent' = NoSent
    /\ last' = [ClientStep("markReadEffect", Null)
                   EXCEPT !.status = Len(UnreadIds(log.list, Me))]
    /\ UNCHANGED <<ctl, toServer, log, fromServer, fetch, response, posting, posted, pet>>
    /\ UNCHANGED indicators
    /\ UNCHANGED <<store, clock, req, readyState, connections,
                   pubNew, history>>

\* useQuery of the message list, when the view mounts: the GET is sent
UseQuery ==
    /\ mounted = "mounted"
    /\ fetch = "new"
    /\ fetch' = "pending"
    /\ sent' = NoSent
    /\ last' = ClientStep("query", Null)
    /\ UNCHANGED <<ctl, toServer, log, fromServer, response, patches, effectDue, posting, posted, pet>>
    /\ UNCHANGED indicators
    /\ UNCHANGED <<store, clock, req, readyState, connections,
                   pubNew, history>>

\* a step of GET /api/messages/:conversationId that changes the GET of the view
\* and nothing else
GetMessagesStep(status) ==
    /\ sent' = NoSent
    /\ last' = RestStep("getMessages", Null, status, FALSE, FALSE)
    /\ UNCHANGED <<ctl, toServer, log, fromServer, patches, effectDue, posting, posted, pet>>
    /\ UNCHANGED indicators
    /\ UNCHANGED <<store, clock, req, readyState, connections,
                   pubNew, history>>

\* GET /api/messages/:conversationId of the hook's user reaches the server:
\* isAuthenticated, parseInt, then await storage.getConversation
GetMessagesBegin ==
    /\ fetch = "pending"
    /\ Quiet
    /\ fetch' = "getConv"
    /\ UNCHANGED response
    /\ GetMessagesStep(0)

\* getConversation answered: 404 without it, 403 for a non-participant, then
\* await storage.getConversationMessages
GetMessagesGetConversation(ok) ==
    /\ fetch = "getConv"
    /\ Answers(ok)
    /\ LET status == IF ~ok THEN 500
                     ELSE IF ~HasConversation(conversations, MyConversation) THEN 404
                     ELSE IF ~IsParticipant(GetConversation(conversations, MyConversation),
                                            Me)
                          THEN 403
                     ELSE 0
       IN  /\ fetch' = IF status = 0 THEN "select" ELSE "answered"
           /\ response' = IF status = 0 THEN response ELSE Response(status, <<>>)
           /\ GetMessagesStep(status)

\* getConversationMessages answered: 200 with the conversation's messages as the
\* store holds them now
GetMessagesSelect(ok) ==
    /\ fetch = "select"
    /\ Answers(ok)
    /\ fetch' = "answered"
    /\ response' = IF ok
                   THEN Response(200, GetConversationMessages(messages, MyConversation))
                   ELSE Response(500, <<>>)
    /\ GetMessagesStep(response'.status)

GetMessagesRoute ==
    \/ GetMessagesBegin
    \/ \E ok \in BOOLEAN : GetMessagesGetConversation(ok)
    \/ \E ok \in BOOLEAN : GetMessagesSelect(ok)

\* the route while the database answers every query
GetMessagesAnswered ==
    \/ GetMessagesBegin
    \/ GetMessagesGetConversation(TRUE)
    \/ GetMessagesSelect(TRUE)

\* the response of the GET arrives: the list of a 200 becomes the query data,
\* any other answer leaves the data as it is
QueryDone ==
    /\ fetch = "answered"
    /\ log' = IF response.status = 200 THEN Data(response.list) ELSE log
    /\ effectDue' = (effectDue \/ log' # log)
    /\ fetch' = "idle"
    /\ sent' = NoSent
    /\ last' = [ClientStep("fetched", Null) EXCEPT !.status = response.status]
    /\ UNCHANGED <<ctl, toServer, fromServer, response, patches, posting, posted, pet>>
    /\ UNCHANGED indicators
    /\ UNCHANGED <<store, clock, req, readyState, connections,
                   pubNew, history>>

\* POST /api/messages at its last step, with the client connected: the
\* new_message frames are on their way, and so is the 201 of a message the view
\* sent
ThreadSendMessageTouch(r) ==
    /\ SendMessageTouchWork(r, TRUE)
    /\ fromServer' = Delivered(fromServer, sent')
    /\ posted' = IF req[r].user = Me THEN 201 ELSE posted
    /\ UNCHANGED <<ctl, toServer, log, fetch, response, patches, effectDue, posting, pet>>
    /\ UNCHANGED indicators

\* a new request is taken while few frames are in flight to the client
FewInFlight == \A c \in Conns : Len(fromServer[c]) < MaxFrames

\* ... and while few PATCH requests of the view wait
FewPatches == BagCardinality(patches) < MaxPatches

\* a PATCH .../read of the view reaches the server
ThreadMarkReadBegin(r, messageIds) ==
    /\ BagIn(messageIds, patches)
    /\ FewInFlight
    /\ MarkReadBeginWork(r, Me, MyConversation, messageIds)
    /\ patches' = patches (-) Patch(messageIds)
    /\ UNCHANGED <<ctl, toServer, log, fromServer, fetch, response, effectDue, posting, posted, pet>>
    /\ UNCHANGED indicators

\* PATCH .../read at work, with the client connected: the message_read frames
\* are on their way
ThreadMarkReadMark(r) ==
    /\ MarkReadMarkWork(r, TRUE)
    /\ fromServer' = Delivered(fromServer, sent')
    /\ UNCHANGED <<ctl, toServer, log, fetch, response, patches, effectDue, posting, posted, pet>>
    /\ UNCHANGED indicators

ThreadMarkReadUpdate(r) ==
    /\ MarkReadUpdateWork(r, TRUE)
    /\ fromServer' = Delivered(fromServer, sent')
    /\ UNCHANGED <<ctl, toServer, log, fetch, response, patches, effectDue, posting, posted, pet>>
    /\ UNCHANGED indicators

\* ------------------------------------------------ client: typing sweep
\* handleTyping(userId) of the render in which typingUsers was held: includes
\* reads that list, the updater of setTypingUsers appends to the list as it is now
HandleTyping(held, list, userId) ==
    IF userId # Me /\ ~\E i \in 1..Len(held) : held[i] = userId
    THEN Append(list, userId)
    ELSE list

\* handleStopTyping(userId) of the view, for each of the users: filter gives a
\* new array, whether or not it holds the user
HandleStopTyping(list, users) ==
    LET stays(id) == ~(id # Me /\ id \in users)
    IN  SelectSeq(list, stays)

\* (mutant) the sweep removes an entry as soon as it is as old as the window
Expired_AtWindow(users, t) ==
    {u \in DOMAIN users : t - users[u] >= TypingWindow}

\* the entries the sweep removes at time t: now - timestamp > 3000
Expired(users, t) ==
    {u \in DOMAIN users : t - users[u] > TypingWindow}

\* An indicator set now can still expire before the clock of the model ends.
InTime == time + TypingWindow < MaxTime

\* ws.onmessage of transport k, case typing, of user u: the entry of u gets the
\* timestamp Date.now() and the onTyping the transport was made with is called
OnTypingEvent(k, u) ==
    /\ InTime
    /\ Len(shown) < MaxShown
    /\ IF u # Me
       THEN /\ typingUsers' = [v \in DOMAIN typingUsers \cup {u} |->
                                  IF v = u THEN time ELSE typingUsers[v]]
            /\ shown' = HandleTyping(captured[k], shown, u)
            /\ handlersChanged' = (handlersChanged \/ shown' # shown)
       ELSE UNCHANGED <<typingUsers, shown, handlersChanged>>
    /\ notified' = {}
    /\ sent' = NoSent
    /\ last' = [ClientStep("typing", Null) EXCEPT !.user = u]
    /\ UNCHANGED <<time, swept>>
    /\ UNCHANGED <<ctl, toServer, thread, composer>>
    /\ UNCHANGED <<store, clock, req, readyState, connections,
                   pubNew, history>>

\* ws.onmessage, case stop_typing, of user u: the entry of u is deleted
OnStopTypingEvent(u) ==
    /\ IF u # Me
       THEN /\ typingUsers' = [v \in DOMAIN typingUsers \ {u} |-> typingUsers[v]]
            /\ shown' = HandleStopTyping(shown, {u})
            /\ notified' = {u}
            /\ handlersChanged' = TRUE
       ELSE /\ UNCHANGED <<typingUsers, shown, handlersChanged>>
            /\ notified' = {}
    /\ sent' = NoSent
    /\ last' = [ClientStep("stop_typing", Null) EXCEPT !.user = u]
    /\ UNCHANGED <<time, swept>>
    /\ UNCHANGED <<ctl, toServer, thread, composer>>
    /\ UNCHANGED <<store, clock, req, readyState, connections,
                   pubNew, history>>

\* the sweep interval fires, once a second: the expired entries are deleted
\* and onStopTyping is called for each
SweepFire ==
    /\ swept < time
    /\ LET expired == Expired(typingUsers, time)
       IN  /\ typingUsers' = [v \in DOMAIN typingUsers \ expired |-> typingUsers[v]]
           /\ shown' = HandleStopTyping(shown, expired)
           /\ notified' = expired
           /\ handlersChanged' = (handlersChanged \/ expired # {})
    /\ swept' = time
    /\ sent' = NoSent
    /\ last' = ClientStep("sweep", Null)
    /\ UNCHANGED time
    /\ UNCHANGED <<ctl, toServer, thread, composer>>
    /\ UNCHANGED <<store, clock, req, readyState, connections,
                   pubNew, history>>

\* a second passes, once the sweep that was due has run
SweepTick ==
    /\ swept = time
    /\ time < MaxTime
    /\ time' = time + 1
    /\ notified' = {}
    /\ sent' = NoSent
    /\ last' = ClientStep("tick", Null)
    /\ UNCHANGED <<swept, typingUsers, shown, handlersChanged>>
    /\ UNCHANGED <<ctl, toServer, thread, composer>>
    /\ UNCHANGED <<store, clock, req, readyState, connections,
                   pubNew, history>>

\* The render after the view's typingUsers was set: handleTyping depends on
\* typingUsers and connect on handleTyping, so the hook's effect runs again,
\* its cleanup first.
RerunForTyping(k) ==
    /\ handlersChanged
    /\ RerunWork(k)
    /\ handlersChanged' = FALSE
    /\ UNCHANGED <<time, swept, typingUsers, shown, notified>>
    /\ UNCHANGED <<thread, composer>>

\* A typing event of user u arrives on transport k.  ws.onmessage reads neither
\* socket.current nor isConnected: a transport delivers what it receives once
\* it has opened and until it has closed, also after the hook has replaced it.
TypingArrives(k, u) ==
    /\ wsState[k] \in {"OPEN", "CLOSING"}
    /\ OnTypingEvent(k, u)

\* a stop_typing event of user u arrives on transport k
StopTypingArrives(k, u) ==
    /\ wsState[k] \in {"OPEN", "CLOSING"}
    /\ OnStopTypingEvent(u)

\* The transports of the hook while typing events arrive: a transport opens,
\* closes (the one the hook closed in either way, any other by failing), and
\* an armed reconnect timer fires.
TypingTransport(k) ==
    \/ Mount(k)
    \/ ServerAccepts(k)
    \/ OnOpen(k)
    \/ RerunForTyping(k)
    \/ \E wasClean \in BOOLEAN : CloseEventWhileStable(k, wasClean)
    \/ \E t \in Conns : ReconnectFire(t, k)

\* The typing indicators of the hook: the hook connects, the events of the
\* users arrive on its transports, the effect runs again after every change of
\* the view's list, and the sweep runs every second.  The frames the hook sends
\* wait at the server.
NextSweep ==
    \/ \E k \in Conns : TypingTransport(k)
    \/ \E k \in Conns, u \in Users : TypingArrives(k, u) \/ StopTypingArrives(k, u)
    \/ SweepFire
    \/ SweepTick

\* the interval fires every second
SpecSweep ==
    /\ InitDb
    /\ [][NextSweep]_vars
    /\ WF_vars(SweepFire)
    /\ WF_vars(SweepTick)

\* ------------------------------------------------ client: typing effect
\* what the input may hold: nothing, a blank, or text
Texts == {"", " ", "a", "ab"}

\* the text of the template button, with the name of the pet once the pet
\* query has data: a text that is not blank and has no blank at either end
Template(data) ==
    "Hi, I'm interested in talking about "
        \o (IF data.defined THEN data.name ELSE "your pet") \o "!"

\* String.prototype.trim
Trim(text) == IF text = " " THEN "" ELSE text

\* the handles setTimeout gives: one that names no timeout the view still knows
Handles == 1..3

TypingFrameOf(type) ==
    [type |-> type, hasData |-> TRUE, userId |-> [t |-> "num", v |-> Me],
     conversationId |-> [t |-> "num", v |-> MyConversation]]

\* the hook's socket is open and the hook reports connected
Connected == socket # Null /\ wsState[socket] = "OPEN" /\ isConnected

\* sendTyping / sendStopTyping of a render in which isConnected was connected:
\* the frame is sent if the socket is open, else nothing happens
SendIfConnected(type, connected) ==
    IF socket # Null /\ wsState[socket] = "OPEN" /\ connected
    THEN /\ Send(socket, TypingFrameOf(type))
         /\ sinceKey' = Append(sinceKey, type)
    ELSE UNCHANGED <<toServer, firstSent, sinceKey>>

\* the dependencies of the typing effect (sendTyping and sendStopTyping change
\* with isConnected)
Deps == [run |-> TRUE, newMessage |-> newMessage, isTyping |-> isTyping,
         typingTimer |-> typingTimer, isConnected |-> isConnected]

\* the typing effect has to run: the view has mounted or a dependency changed
Pending == mounted = "mounted" /\ seen # Deps

\* the timeouts left armed by clearTimeout of the handles
ClearTimeouts(timers, handles) ==
    [h \in DOMAIN timers \ handles |-> timers[h]]

\* The timeouts after a run of the effect: the cleanup of the run before clears
\* the handle that run saw, this run clears the handle it sees and, if isTyping,
\* sets a new timeout.
TimersAfterEffect(timers, cleanupTimer, timer, typingNow, due) ==
    LET cleared == ClearTimeouts(timers, {cleanupTimer, timer})
        fresh == CHOOSE h \in Handles :
                     /\ h \notin DOMAIN timers \cup {cleanupTimer, timer}
                     /\ \A g \in Handles :
                            g \notin DOMAIN timers \cup {cleanupTimer, timer} => h <= g
    IN  IF typingNow
        THEN [h \in DOMAIN cleared \cup {fresh} |->
                 IF h = fresh THEN due ELSE cleared[h]]
        ELSE cleared

\* the handle of the timeout the run of the effect set, Null if it set none
NewTimer(before, after) ==
    IF DOMAIN after \ DOMAIN before = {} THEN Null
    ELSE CHOOSE h \in DOMAIN after \ DOMAIN before : TRUE

\* the typing effect runs, after the cleanup of its run before
TypingEffect ==
    /\ Pending
    /\ LET starts == Trim(newMessage) # "" /\ ~isTyping
           stops == Trim(newMessage) = "" /\ isTyping
           timers == TimersAfterEffect(armed, seen.typingTimer, typingTimer,
                                       isTyping, time + TypingWindow)
           frame == IF starts THEN "typing" ELSE IF stops THEN "stop_typing" ELSE ""
       IN  /\ isTyping' = IF starts THEN TRUE ELSE IF stops THEN FALSE ELSE isTyping
           /\ IF frame # ""
              THEN SendIfConnected(frame, isConnected)
              ELSE UNCHANGED <<toServer, firstSent, sinceKey>>
           /\ armed' = timers
           /\ typingTimer' = IF isTyping THEN NewTimer(armed, timers) ELSE Null
           /\ last' = [ClientStep("effect", socket)
                          EXCEPT !.ftype = IF Connected THEN frame ELSE ""]
    /\ seen' = Deps
    /\ ran' = TRUE
    /\ sent' = NoSent
    /\ UNCHANGED <<newMessage, isSending, typedAt, keyConnected, stalled>>
    /\ UNCHANGED <<mounted, socket, wsState, reconnectTimeout, pingInterval,
                   reconnectTimers, pingTimers, isConnected, isReconnecting,
                   closedUncleanly, captured>>
    /\ UNCHANGED <<thread, typing>>
    /\ UNCHANGED <<store, clock, req, readyState, connections,
                   pubNew, history>>

\* the typing timeout h is due: setIsTyping(false) and sendStopTyping() of the
\* render that set it
TypingTimeout(h) ==
    /\ h \in DOMAIN armed
    /\ armed[h] <= time
    /\ isTyping' = FALSE
    /\ SendIfConnected("stop_typing", seen.isConnected)
    /\ armed' = ClearTimeouts(armed, {h})
    /\ last' = [ClientStep("typingTimeout", socket) EXCEPT !.ftype = "stop_typing"]
    /\ ran' = FALSE
    /\ sent' = NoSent
    /\ UNCHANGED <<newMessage, isSending, typingTimer, seen, typedAt, keyConnected,
                   stalled>>
    /\ UNCHANGED <<mounted, socket, wsState, reconnectTimeout, pingInterval,
                   reconnectTimers, pingTimers, isConnected, isReconnecting,
                   closedUncleanly, captured>>
    /\ UNCHANGED <<thread, typing>>
    /\ UNCHANGED <<store, clock, req, readyState, connections,
                   pubNew, history>>

\* setNewMessage(text) of a click or a key, while the server has handled all
\* but a few of the frames sent before
InputChange(text) ==
    /\ mounted = "mounted"
    /\ text # newMessage
    /\ \A k \in Conns : Len(toServer[k]) < MaxFrames
    /\ newMessage' = text
    /\ typedAt' = time
    /\ keyConnected' = Connected
    /\ stalled' = FALSE
    /\ sinceKey' = <<>>
    /\ ran' = FALSE
    /\ sent' = NoSent
    /\ last' = ClientStep("input", Null)
    /\ UNCHANGED <<isSending, isTyping, typingTimer, seen, armed>>
    /\ UNCHANGED <<ctl, toServer, thread, typing>>
    /\ UNCHANGED <<store, clock, req, readyState, connections,
                   pubNew, history>>

\* the user changes the text of the Textarea, which is disabled while a message
\* is being sent
SetNewMessage(text) ==
    /\ ~isSending
    /\ InputChange(text)

\* isLoading of the message query: no data yet and the first fetch on its way
IsLoading == ~log.defined /\ fetch # "idle"

\* the button "Start with a template", which the view shows in place of an
\* empty list and which has no disabled attribute, puts the template text
\* into the input
StartWithTemplate ==
    /\ ~IsLoading
    /\ log.list = <<>>
    /\ InputChange(Template(pet))

\* useQuery of the pet of the conversation: GET /api/pets/:id is answered with
\* the row of the pet, which has a name
PetQueryDone(name) ==
    /\ mounted = "mounted"
    /\ ~pet.defined
    /\ HasConversation(conversations, MyConversation)
    /\ HasPet(pets, GetConversation(conversations, MyConversation).petId)
    /\ pet' = [defined |-> TRUE, name |-> name]
    /\ sent' = NoSent
    /\ last' = ClientStep("pet", Null)
    /\ UNCHANGED <<log, fromServer, fetch, response, patches, effectDue, posting>>
    /\ UNCHANGED posted
    /\ UNCHANGED <<ctl, toServer, indicators>>
    /\ UNCHANGED <<store, clock, req, readyState, connections,
                   pubNew, history>>

\* A second passes.  A timeout that is due fires first, and an effect that has
\* to run runs at least once a second.
ComposerTick ==
    /\ time < MaxTime
    /\ Pending => ran
    /\ \A h \in DOMAIN armed : armed[h] > time
    /\ time' = time + 1
    /\ ran' = FALSE
    /\ sent' = NoSent
    /\ last' = ClientStep("tick", Null)
    /\ UNCHANGED <<newMessage, isSending, isTyping, typingTimer, seen, armed, typedAt,
                   keyConnected, stalled, sinceKey>>
    /\ UNCHANGED <<swept, typingUsers, shown, notified, handlersChanged>>
    /\ UNCHANGED <<ctl, toServer, thread>>
    /\ UNCHANGED <<store, clock, req, readyState, connections,
                   pubNew, history>>

\* The browser stalls for as long as the window: nothing runs meanwhile, and
\* afterwards a timeout that is due and the effect run in either order.
Stall ==
    /\ mounted = "mounted"
    /\ time + TypingWindow <= MaxTime
    /\ time' = time + TypingWindow
    /\ stalled' = TRUE
    /\ sent' = NoSent
    /\ last' = ClientStep("stall", Null)
    /\ UNCHANGED <<newMessage, isSending, isTyping, typingTimer, seen, armed, ran,
                   typedAt, keyConnected, sinceKey>>
    /\ UNCHANGED <<swept, typingUsers, shown, notified, handlersChanged>>
    /\ UNCHANGED <<ctl, toServer, thread>>
    /\ UNCHANGED <<store, clock, req, readyState, connections,
                   pubNew, history>>

\* The view unmounts: the cleanup of the hook's effect and the cleanup of the
\* last run of the typing effect, which clears the handle that run saw.
ThreadUnmount ==
    /\ UnmountWork
    /\ armed' = ClearTimeouts(armed, {seen.typingTimer})
    /\ UNCHANGED <<newMessage, isSending, isTyping, typingTimer, seen, ran, typedAt,
                   keyConnected, stalled, sinceKey>>
    /\ UNCHANGED <<thread, typing>>

\* handleSendMessage of the view, from the button or the Enter key of the input,
\* both disabled while a message is being sent: nothing is sent when the input
\* holds no text, otherwise setIsSending(true) and the POST of the mutation
\* leaves the view
HandleSendMessage ==
    /\ mounted = "mounted"
    /\ ~isSending
    /\ Trim(newMessage) # ""
    /\ isSending' = TRUE
    /\ posting' = TRUE
    /\ sent' = NoSent
    /\ last' = ClientStep("send", Null)
    /\ UNCHANGED <<newMessage, isTyping, typingTimer, seen, armed, ran, typedAt,
                   keyConnected, stalled, sinceKey>>
    /\ UNCHANGED <<posted, pet, log, fromServer, fetch, response, patches, effectDue>>
    /\ UNCHANGED <<ctl, toServer, typing>>
    /\ UNCHANGED <<store, clock, req, readyState, connections,
                   pubNew, history>>

\* the POST of the view reaches the server
ThreadSendMessageBegin(r) ==
    /\ posting
    /\ FewInFlight
    /\ SendMessageBeginWork(r, Me, TRUE, MyConversation)
    /\ posting' = FALSE
    /\ UNCHANGED <<posted, pet, log, fromServer, fetch, response, patches, effectDue>>
    /\ UNCHANGED <<ctl, toServer, indicators>>

\* The answer to the view's POST arrives.  onSuccess of a 201 clears the input
\* and invalidates the message list, which is fetched again; onError shows a
\* toast; onSettled enables the input and the button again.
SendMessageSettled ==
    /\ posted # 0
    /\ posted' = 0
    /\ isSending' = FALSE
    /\ IF posted = 201
       THEN /\ newMessage' = ""
            /\ fetch' = "pending"
            /\ IF newMessage # ""
               THEN /\ typedAt' = time
                    /\ keyConnected' = Connected
                    /\ stalled' = FALSE
                    /\ sinceKey' = <<>>
                    /\ ran' = FALSE
               ELSE UNCHANGED <<typedAt, keyConnected, stalled, sinceKey, ran>>
       ELSE UNCHANGED <<newMessage, fetch, typedAt, keyConnected, stalled, sinceKey, ran>>
    /\ sent' = NoSent
    /\ last' = [ClientStep("settled", Null) EXCEPT !.status = posted]
    /\ UNCHANGED <<isTyping, typingTimer, seen, armed>>
    /\ UNCHANGED <<log, fromServer, response, patches, effectDue, posting, pet>>
    /\ UNCHANGED <<ctl, toServer, typing>>
    /\ UNCHANGED <<store, clock, req, readyState, connections,
                   pubNew, history>>

\* the other participant sends a message
PeerSendMessageBegin(r) ==
    /\ FewInFlight
    /\ SendMessageBegin(r, Peer, TRUE, MyConversation)

\* the other participant's view asks to mark messages it has fetched as read
PeerMarkReadBegin(r, messageIds) ==
    /\ FewInFlight
    /\ MarkReadBegin(r, Peer, MyConversation, messageIds)

\* POST /api/messages of the other participant, and the steps of the route
PeerSends(r) ==
    \/ PeerSendMessageBegin(r)
    \/ \E now \in 0..MaxClock : SendMessageGetConversation(r, TRUE, now)
    \/ \E now \in 0..MaxClock : SendMessageInsert(r, TRUE, now)
    \/ \E now \in 0..MaxClock : SendMessageCreateTouch(r, TRUE, now)
    \/ ThreadSendMessageTouch(r)

\* POST /api/messages of both participants of the conversation
ThreadSends(r) ==
    \/ ThreadSendMessageBegin(r)
    \/ PeerSends(r)

\* the view of the conversation at work: the user types a message, and the
\* answer to the view's POST arrives
Drafts == {"a"}

ThreadTyping ==
    \/ \E text \in Drafts : SetNewMessage(text)
    \/ HandleSendMessage
    \/ SendMessageSettled

\* ... and the template button, while the view shows it, before or after the
\* pet query has its data
ThreadInput ==
    \/ ThreadTyping
    \/ StartWithTemplate
    \/ \E name \in PetNames : PetQueryDone(name)

\* PATCH .../read of both participants of the conversation
ThreadMarkReads(r) ==
    \/ \E messageIds \in BagToSet(patches) : ThreadMarkReadBegin(r, messageIds)
    \/ \E messageIds \in IdLists(messages, 1) : PeerMarkReadBegin(r, messageIds)
    \/ MarkReadGetConversation(r, TRUE)
    \/ ThreadMarkReadMark(r)
    \/ ThreadMarkReadUpdate(r)

\* the hook connects and the server binds the connection
Connection(k) ==
    \/ Mount(k)
    \/ ServerAccepts(k)
    \/ OnOpen(k)
    \/ ServerOnMessage(k)

\* The message list of the view: the query and its re-fetches, the messages both
\* participants send, and the new_message events, on a connection that stays up.
NextLog ==
    \/ \E k \in Conns : Connection(k) \/ OnNewMessage(k)
    \/ UseQuery
    \/ GetMessagesRoute
    \/ QueryDone
    \/ ThreadInput
    \/ \E r \in {1} : ThreadSends(r)

SpecLog == InitDb /\ [][NextLog]_vars

\* The read receipts of the view: the messages and the mark-read requests of
\* both participants and the events of both kinds, on a connection that stays
\* up and a list that is built from the events: the query is loading until the
\* first event puts a message into the list, so the view never shows the
\* template button.
NextRead ==
    \/ \E k \in Conns : Connection(k) \/ OnNewMessage(k) \/ OnMessageRead(k)
    \/ MarkReadEffect
    \/ ThreadTyping
    \/ \E r \in {1} : (FewPatches /\ ThreadSends(r)) \/ ThreadMarkReads(r)

SpecRead == InitDb /\ [][NextRead]_vars

\* the input of the view and its typing effect, on a connection that stays up
NextComposer ==
    \/ \E k \in Conns : Connection(k)
    \/ \E text \in Texts : SetNewMessage(text)
    \/ TypingEffect
    \/ \E h \in Handles : TypingTimeout(h)
    \/ ComposerTick
    \/ Stall

SpecComposer == InitDb /\ [][NextComposer]_vars

\* the input of the view and its typing effect, until the view unmounts
NextUnmount ==
    \/ NextComposer
    \/ ThreadUnmount

SpecUnmount == InitDb /\ [][NextUnmount]_vars

\* The rows a messages table may hold for the two conversations: row i has id
\* i and a participant of its conversation as sender.  createdAt is the wall
\* clock read before the insert, so rows need not be in the order of createdAt.
MessageRows(id) ==
    {m \in [id : {id}, conversationId : {1, 2}, senderId : Users,
            isRead : BOOLEAN, createdAt : 0..MaxClock] :
        IsParticipant(TwoConversations("DatabaseStorage", MaxClock)[m.conversationId],
                      m.senderId)}

RECURSIVE MessageTables(_)
MessageTables(n) ==
    IF n = 0 THEN {NoRows}
    ELSE LET shorter == MessageTables(n - 1)
         IN  shorter \cup {WithRow(t, m) : t \in {s \in shorter : DOMAIN s = 1..(n - 1)},
                                           m \in MessageRows(n)}

\* the server over a store that holds messages already
InitFetch ==
    \E msgs \in MessageTables(MaxMsgs) : InitWith("DatabaseStorage", MaxClock, msgs)

\* the view mounts and fetches the message list of its conversation
NextFetch ==
    \/ \E k \in Conns : Connection(k)
    \/ UseQuery
    \/ GetMessagesRoute
    \/ QueryDone

SpecFetch == InitFetch /\ [][NextFetch]_vars

\* The typing indicators of the view on its connection: the typing and
\* stop_typing events of the other participant arrive on the transports of the
\* hook, the server handles the frames of the hook, and the sweep runs every
\* second.
NextIndicators ==
    \/ \E k \in Conns : TypingTransport(k) \/ ServerOnMessage(k)
    \/ \E k \in Conns : TypingArrives(k, Peer) \/ StopTypingArrives(k, Peer)
    \/ SweepFire
    \/ SweepTick

SpecIndicators == InitDb /\ [][NextIndicators]_vars

\* The message list of the view while send-message requests of the other
\* participant overlap, each request in its own slot, on a connection that
\* stays up.
NextOrder ==
    \/ \E k \in Conns : Connection(k) \/ OnNewMessage(k)
    \/ UseQuery
    \/ GetMessagesAnswered
    \/ QueryDone
    \/ \E r \in Reqs : Free(r) /\ PeerSends(r)

SpecOrder == InitDb /\ [][NextOrder]_vars

\* The message list of the view on a connection that drops: the transport
\* closes uncleanly, the hook reconnects, and the other participant sends
\* messages meanwhile.
NextGap ==
    \/ \E k \in Conns :
          \/ Connection(k)
          \/ OnNewMessage(k)
          \/ OnCloseEvent(k, FALSE)
          \/ \E t \in Conns : ReconnectFire(t, k)
          \/ ServerTransportDown(k)
          \/ OnClose(k)
    \/ UseQuery
    \/ GetMessagesAnswered
    \/ QueryDone
    \/ \E r \in {1} : PeerSends(r)

SpecGap == InitDb /\ [][NextGap]_vars

TwoConversationsReached ==
    \A kind \in Storages : conversations # TwoConversations(kind, 0)

\* ================================================================= claims
\* connection c is bound to conversation conv in registry conns
BoundTo(conns, c, conv) ==
    /\ c \in DOMAIN conns
    /\ conv \in ConvIds
    /\ conns[c].conversationId = conv

Unbound == [userId |-> Null, conversationId |-> Null]

TypingFrame(step) == step.op = "message" /\ step.ftype \in {"typing", "stop_typing"}

\* C1: an event is published only once its write is in the store.  The state
\* right after the step that publishes a new_message event for message m holds
\* m in the message list of the conversation the event was published to, and
\* the state right after the step that publishes a message_read event holds
\* every message the event names that another user than the reader sent as a
\* read message: a re-fetch started on receiving the event observes the change.
C1_PublishedIsStored ==
    [][/\ \A p \in pubNew' \ pubNew :
              /\ p[1] \in DOMAIN messages'
              /\ messages'[p[1]].conversationId = p[2]
       /\ (last'.op = "markRead" /\ last'.pub) =>
              \A j \in 1..Len(req[last'.id].ids) :
                  SentByOther(messages', req[last'.id].ids[j], req[last'.id].user)
                      => messages'[req[last'.id].ids[j]].isRead]_vars

\* C2: a send-message or mark-read request that fails has published no event
\* and has left the store as it was when the request began.
C2_FailedRequestLeavesNothing ==
    (last.op \in {"send", "markRead"} /\ last.status >= 400)
        => (~last.wrote /\ ~last.pub)

\* C3: the store holds at most one conversation per (petId, adopterId, ownerId).
C3_OneConversationPerTriple ==
    \A i, j \in DOMAIN conversations :
        (/\ conversations[i].petId = conversations[j].petId
         /\ conversations[i].adopterId = conversations[j].adopterId
         /\ conversations[i].ownerId = conversations[j].ownerId) => i = j

\* C4: a step that publishes to a conversation delivers nothing to a connection
\* without a binding or bound to another conversation.
C4_BroadcastIsolation ==
    last.pub => \A c \in Conns :
                    sent[c] # <<>> => BoundTo(connections, c, last.conv)

C4_Witness ==
    /\ last.pub
    /\ \E c, d \in Conns :
          /\ sent[c] # <<>>
          /\ d \in DOMAIN connections /\ readyState[d] = "OPEN"
          /\ ~BoundTo(connections, d, last.conv)
          /\ sent[d] = <<>>

\* C5: a publish sends the event once to every connection that is bound to the
\* conversation, open and not the excluded one, sends nothing to any other
\* connection, and leaves the registry as it was.
C5_PublishDelivery ==
    [][last'.pub =>
        LET excl == IF last'.op = "message" THEN last'.id ELSE Null
            type == IF last'.op = "message" THEN last'.ftype
                    ELSE IF last'.op = "markRead" THEN "message_read"
                    ELSE "new_message"
        IN  /\ \A c \in Conns :
                  IF /\ BoundTo(connections, c, last'.conv)
                     /\ readyState[c] = "OPEN"
                     /\ c # excl
                  THEN Len(sent'[c]) = 1 /\ sent'[c][1].type = type
                  ELSE sent'[c] = <<>>
            /\ connections' = connections]_vars

C5_Witness ==
    /\ last.pub
    /\ \E c, d \in Conns :
          /\ sent[c] # <<>>
          /\ BoundTo(connections, d, last.conv)
          /\ readyState[d] = "CLOSING"
          /\ sent[d] = <<>>

\* C6: isRead never goes from true to false, and it goes from false to true
\* only in a mark-read request made against the message's own conversation by
\* the participant of that conversation who did not send the message.
C6_ReadOnlyByTheOtherParticipant ==
    [][\A id \in DOMAIN messages \cap DOMAIN messages' :
          /\ messages[id].isRead => messages'[id].isRead
          /\ (~messages[id].isRead /\ messages'[id].isRead) =>
                /\ last'.op = "markRead"
                /\ req[last'.id].conv = messages[id].conversationId
                /\ req[last'.id].user # messages[id].senderId
                /\ HasConversation(conversations, messages[id].conversationId)
                /\ IsParticipant(conversations[messages[id].conversationId],
                                 req[last'.id].user)]_vars

\* C7: a step of a mark-read call leaves unread every unread message sent by
\* the user the call is made for.
C7_OwnMessagesStayUnread ==
    [][\A r \in Reqs, id \in DOMAIN messages \cap DOMAIN messages' :
          (/\ last'.op = "markRead" /\ last'.id = r
           /\ req[r].pc \in {"mark", "update"}
           /\ messages[id].senderId = req[r].user
           /\ ~messages[id].isRead) => ~messages'[id].isRead]_vars

\* a mark-read call has handled the first id of its array, an unread message
\* of the caller's own, which is still unread
C7_Witness ==
    \E r \in Reqs :
        /\ req[r].kind = "markRead" /\ req[r].pc = "mark" /\ req[r].i = 2
        /\ last.op = "markRead" /\ last.id = r
        /\ messages[req[r].ids[1]].senderId = req[r].user
        /\ ~messages[req[r].ids[1]].isRead

\* C8: a typing, stop_typing or ping frame of a connection that has no binding
\* yet sends nothing to any connection and leaves the registry unchanged.
C8_UnauthenticatedFramesIgnored ==
    [][(/\ last'.op = "message"
        /\ last'.ftype \in {"typing", "stop_typing", "ping"}
        /\ connections[last'.id] = Unbound)
          => (sent' = NoSent /\ connections' = connections)]_vars

\* C9: a typing or stop_typing frame naming a conversation, sent by a connection
\* bound to a conversation, is delivered to exactly the other open connections
\* bound to the sender's conversation.
C9_TypingFollowsBinding ==
    [][(/\ TypingFrame(last')
        /\ last'.conv \in ConvIds
        /\ connections[last'.id].conversationId \in ConvIds)
          => \A d \in Conns :
                sent'[d] # <<>> <=>
                    /\ d # last'.id
                    /\ readyState[d] = "OPEN"
                    /\ BoundTo(connections, d,
                               connections[last'.id].conversationId)]_vars

\* C10: a typing or stop_typing frame is not sent back to its sender, and
\* handling it changes neither the store nor the registry.
C10_TypingNotEchoed ==
    [][TypingFrame(last') =>
          /\ sent'[last'.id] = <<>>
          /\ messages' = messages
          /\ conversations' = conversations
          /\ connections' = connections]_vars

C10_Witness ==
    /\ TypingFrame(last)
    /\ readyState[last.id] = "OPEN"
    /\ BoundTo(connections, last.id, last.conv)
    /\ sent[last.id] = <<>>
    /\ \E d \in Conns : sent[d] # <<>>

\* C11: an auth frame carrying {userId, conversationId} leaves its connection
\* bound to exactly that pair, whatever it was bound to, and changes no other
\* entry of the registry; a publish to the new conversation then reaches the
\* connection and a publish to any other conversation does not.
C11_AuthRebinds ==
    [][(last'.op = "message" /\ last'.ftype = "auth" /\ last'.conv # Null) =>
          /\ DOMAIN connections' = DOMAIN connections
          /\ connections'[last'.id] = [userId |-> last'.user,
                                       conversationId |-> last'.conv]
          /\ \A d \in DOMAIN connections \ {last'.id} :
                 connections'[d] = connections[d]
          /\ \A conv \in ConvIds :
                 last'.id \in BroadcastTargets(connections', readyState', conv, Null)
                    <=> conv = last'.conv]_vars

\* an auth frame has just moved a connection from another conversation to
\* conversation 2, as user 2
C11_Witness ==
    /\ last.op = "message" /\ last.ftype = "auth" /\ last.rebound
    /\ connections[last.id] = [userId |-> 2, conversationId |-> 2]
    /\ \E d \in DOMAIN connections \ {last.id} : connections[d].conversationId = 1

\* C12: the registry holds an entry for exactly the accepted connections whose
\* close has not been processed; once a connection's close has been processed
\* it has no entry and nothing is delivered to it.
C12_ClosedConnectionsForgotten ==
    /\ DOMAIN connections = {c \in Conns : readyState[c] \in {"OPEN", "CLOSING"}}
    /\ \A c \in Conns : readyState[c] = "CLOSED" =>
           (c \notin DOMAIN connections /\ sent[c] = <<>>)

\* a publish to conversation 1 reaches a connection while another connection,
\* which had been accepted, is closed
C12_Witness ==
    /\ last.pub /\ last.conv = 1
    /\ \E c, d \in Conns : readyState[c] = "CLOSED" /\ sent[d] # <<>>

\* socket.current has closed uncleanly
ClosedUncleanly ==
    socket # Null /\ wsState[socket] = "CLOSED" /\ socket \in closedUncleanly

\* socket.current is open, its first frame was the auth frame, and the server
\* holds it bound to the hook's user and conversation, so that a publish to
\* the conversation reaches it
BoundAgain ==
    /\ socket # Null /\ wsState[socket] = "OPEN"
    /\ firstSent[socket] = "auth"
    /\ socket \in DOMAIN connections
    /\ connections[socket] = [userId |-> Me, conversationId |-> MyConversation]
    /\ socket \in BroadcastTargets(connections, readyState, MyConversation, Null)

\* C13: when socket.current has closed uncleanly, the hook, unless it is torn
\* down, eventually has a new open transport whose first frame was the auth
\* frame and which the server holds bound to the hook's conversation.
C13_ReconnectsAndRebinds ==
    ClosedUncleanly ~> (BoundAgain \/ mounted = "torn")

\* the second transport is bound after the first one closed uncleanly
C13_Witness ==
    /\ BoundAgain /\ socket = 2
    /\ 1 \in closedUncleanly /\ firstSent[1] = "auth"

\* C14: once the consumer has torn the hook down, no ping interval and no
\* reconnect timer is armed and no new transport is created.
C14_TeardownIsFinal ==
    [][mounted' = "torn" =>
          /\ pingTimers' = {}
          /\ reconnectTimers' = {}
          /\ mounted = "torn" =>
                \A k \in Conns : wsState[k] = "NONE" => wsState'[k] = "NONE"]_vars

\* C15: while socket.current is open the hook reports connected and not
\* reconnecting and exactly the ping interval of that transport is armed; while
\* it is not open no ping interval is armed.
C15_ConnectedMeansOpen ==
    IF socket # Null /\ wsState[socket] = "OPEN"
    THEN isConnected /\ ~isReconnecting /\ pingTimers = {socket}
    ELSE pingTimers = {}

\* C16: the message list of the view never holds two entries with the same
\* id, whatever new_message events and fetched lists went into it, and merging
\* a message a second time gives the list that merging it once gave.
C16_NoDuplicateIds ==
    /\ \A i, j \in 1..Len(log.list) : log.list[i].id = log.list[j].id => i = j
    /\ \A id \in DOMAIN messages :
           HandleNewMessage(HandleNewMessage(log, messages[id]), messages[id])
              = HandleNewMessage(log, messages[id])

\* the new_message event of a message the list already held (it had been
\* fetched) was merged into a list of two messages
C16_Witness ==
    /\ last.op = "new_message" /\ last.wrote
    /\ Len(log.list) = 2
    /\ HasId(log.list, last.status)

\* C18: handling message_read {messageIds, userId} sets isRead on the entries
\* of the list whose id is in messageIds and whose sender is the current user,
\* and only when userId is another user; every other entry, and the list of
\* an event of the current user, is left as it was.
C18_ReadReceiptsOnlyOnOwnMessages ==
    [][last'.op = "message_read" =>
          LET data == Head(fromServer[last'.id])
              flips(m) == /\ Includes(data.ids, m.id)
                          /\ m.senderId = Me
                          /\ ParseInt(data.userId) # Me
          IN  /\ log'.defined = log.defined
              /\ Len(log'.list) = Len(log.list)
              /\ \A i \in 1..Len(log.list) :
                     log'.list[i] = IF flips(log.list[i])
                                    THEN [log.list[i] EXCEPT !.isRead = TRUE]
                                    ELSE log.list[i]]_vars

\* a message_read event of the other participant that named two messages set
\* isRead on a message of the current user, and the list holds an unread
\* message of the other participant
C18_Witness ==
    /\ last.op = "message_read" /\ last.user = Peer /\ last.status = 2 /\ last.wrote
    /\ \E i, j \in 1..Len(log.list) :
           /\ log.list[i].senderId = Me /\ log.list[i].isRead
           /\ log.list[j].senderId = Peer /\ ~log.list[j].isRead

\* The hook has reconnected after an unclean close and nothing is under way:
\* no message is being sent, no frame and no response is in flight, no timer
\* is armed, and the server holds the open transport bound to the conversation.
Settled ==
    /\ closedUncleanly # {}
    /\ BoundAgain
    /\ reconnectTimers = {}
    /\ \A r \in Reqs : req[r] = Idle
    /\ ~posting
    /\ posted = 0
    /\ fetch = "idle"
    /\ \A k \in Conns : toServer[k] = <<>>
    /\ \A k \in Conns : wsState[k] \in {"OPEN", "CLOSING"} => fromServer[k] = <<>>
    /\ \A k \in Conns : readyState[k] # "CLOSING"

\* C17: once the hook has reconnected after a gap and nothing is under way,
\* the message list of the view is the store's list of the conversation, oldest
\* first.  (Nothing but a new request changes the list from such a state on.)
C17_LogCatchesUp ==
    Settled => log = Data(GetConversationMessages(messages, MyConversation))

\* C19: the sweep deletes exactly the entries of the typing map that are older
\* than the window and calls onStopTyping for exactly those users, so an entry
\* refreshed within the window stays; after a sweep no entry is older than the
\* window; and an entry that is neither refreshed nor stopped is deleted.
C19_SweepClearsStaleTyping ==
    /\ [][last'.op = "sweep" =>
            /\ DOMAIN typingUsers' =
                  {u \in DOMAIN typingUsers : time - typingUsers[u] <= TypingWindow}
            /\ \A u \in DOMAIN typingUsers' : typingUsers'[u] = typingUsers[u]
            /\ notified' = DOMAIN typingUsers \ DOMAIN typingUsers'
            /\ \A i \in 1..Len(shown') : shown'[i] \notin notified']_vars
    /\ [](swept = time =>
            \A u \in DOMAIN typingUsers : time - typingUsers[u] <= TypingWindow)
    /\ \A u \in Users, t \in 0..MaxTime :
           []<>(u \notin DOMAIN typingUsers \/ typingUsers[u] # t)

\* a sweep has deleted the entry of user 2, which was older than the window,
\* told the view so, and kept the entry of user 3, which is as old as the window
C19_Witness ==
    /\ last.op = "sweep" /\ notified = {Peer}
    /\ 3 \in DOMAIN typingUsers /\ time - typingUsers[3] = TypingWindow
    /\ shown = <<3>>

\* the input has held text, unchanged, for more than a second longer than
\* the window, on a hook that was connected when it last changed and in a
\* browser that has not stalled since
IdleBeyondWindow ==
    /\ Trim(newMessage) # ""
    /\ keyConnected
    /\ ~stalled
    /\ time - typedAt > TypingWindow + 1

\* C20: with the hook connected, the run of the typing effect that finds text
\* in the input while not typing sends a typing frame, the run that finds the
\* input empty while typing sends a stop_typing frame, and once the input has
\* held text unchanged for longer than the window a stop_typing frame has been
\* sent.
C20_OutboundTyping ==
    /\ [][(last'.op = "effect" /\ Connected) =>
             /\ (Trim(newMessage) # "" /\ ~isTyping) =>
                    toServer'[socket] = Append(toServer[socket], TypingFrameOf("typing"))
             /\ (Trim(newMessage) = "" /\ isTyping) =>
                    toServer'[socket] =
                       Append(toServer[socket], TypingFrameOf("stop_typing"))]_vars
    /\ [](IdleBeyondWindow => \E i \in 1..Len(sinceKey) : sinceKey[i] = "stop_typing")

\* C21: at most one typing timeout is armed at any time, and once the view has
\* unmounted no typing timeout is armed.
C21_OneTypingTimer ==
    /\ Cardinality(DOMAIN armed) <= 1
    /\ mounted = "torn" => DOMAIN armed = {}

\* C22: a create request that arrives after a create request of the same
\* (petId, adopterId, ownerId) was answered returns the conversation id that
\* request returned, and adds no conversation.
C22_CreateIsIdempotent ==
    (/\ last.op = "createConv"
     /\ last.status \in {200, 201}
     /\ prior[last.id] # Null)
        => /\ last.status = 200
           /\ ~last.wrote
           /\ last.conv = prior[last.id]

\* the user is the adopter or the owner of the conversation with that id
SenderOf(conversationId, userId) ==
    /\ conversationId \in DOMAIN conversations
    /\ \/ userId = conversations[conversationId].adopterId
       \/ userId = conversations[conversationId].ownerId

\* C23: every message in the store was sent by the adopter or the owner of its
\* conversation; a send-message request of a user who is neither never gets as
\* far as the insert, and the step that answers it 403 leaves the store as it is.
C23_SenderIsParticipant ==
    /\ [](\A i \in DOMAIN messages :
              i >= FirstMessageId(storage)
                  => SenderOf(messages[i].conversationId, messages[i].senderId))
    /\ [](\A r \in Reqs :
              (req[r].kind = "send" /\ req[r].pc \in {"insert", "createTouch", "touch"})
                  => SenderOf(req[r].conv, req[r].user))
    /\ [][(last'.op = "send" /\ last'.status = 403)
              => (~last'.wrote /\ ~last'.pub /\ store' = store)]_vars

\* a message is in the store, and the request of a user who is no participant of
\* an existing conversation has just been answered 403
C23_Witness ==
    /\ \E i \in DOMAIN messages : i >= FirstMessageId(storage)
    /\ last.op = "send"
    /\ last.status = 403

\* C24: the list a fetch of the conversation's messages returns holds each
\* message of the conversation once, as the store holds it, and no other row,
\* and no message of the list comes after a message with a later createdAt.
C24_FetchedInOrder ==
    (last.op = "getMessages" /\ last.status = 200) =>
        LET list == response.list
        IN  /\ \A i \in 1..Len(list) :
                  /\ list[i].id \in DOMAIN messages
                  /\ list[i] = messages[list[i].id]
                  /\ list[i].conversationId = MyConversation
            /\ \A id \in DOMAIN messages :
                  messages[id].conversationId = MyConversation => HasId(list, id)
            /\ \A i, j \in 1..Len(list) :
                  i < j => /\ list[i].id # list[j].id
                           /\ list[i].createdAt <= list[j].createdAt

\* a fetch has returned two messages the store holds in the other order
C24_Witness ==
    /\ last.op = "getMessages" /\ last.status = 200
    /\ Len(response.list) = 2
    /\ response.list[1].id > response.list[2].id
    /\ response.list[1].createdAt < response.list[2].createdAt

\* a frame that is no JSON, or an auth, typing or stop_typing frame that has no
\* data or whose data holds no userId and no conversationId
Malformed(f) ==
    \/ f.type = "unparseable"
    \/ /\ f.type \in {"auth", "typing", "stop_typing"}
       /\ ~f.hasData \/ f.userId = Missing \/ f.conversationId = Missing

\* C25: the step that handles a malformed frame of a connection leaves the
\* connection open and in the registry, leaves every binding as it is and
\* sends nothing to any connection.
C25_MalformedFramesIgnored ==
    [][\A c \in Conns, f \in AuthFrames \cup FieldlessFrames :
           (Malformed(f) /\ OnMessage(c, f))
               => /\ readyState'[c] = "OPEN"
                  /\ connections' = connections
                  /\ sent' = NoSent]_vars

\* C26: the step that handles a ping frame sends one pong to the connection
\* the ping came from and nothing to any other connection, and leaves the
\* registry and the store as they are.
C26_PingAnsweredToSender ==
    [][(last'.op = "message" /\ last'.ftype = "ping")
           => /\ sent' = [NoSent EXCEPT ![last'.id] = <<PlainEvent("pong")>>]
              /\ connections' = connections
              /\ store' = store]_vars

\* a ping of a connection has been answered while another open connection is
\* bound to the same conversation
C26_Witness ==
    /\ last.op = "message"
    /\ last.ftype = "ping"
    /\ sent[last.id] = <<PlainEvent("pong")>>
    /\ \E d \in DOMAIN connections \ {last.id} :
          /\ readyState[d] = "OPEN"
          /\ connections[d].conversationId # Null
          /\ connections[d].conversationId = connections[last.id].conversationId

\* C27: a typing or stop_typing event and a sweep change nothing but the typing
\* indicators, and the render that follows a change of the indicators leaves
\* the hook's transport as it is: the socket is not closed and no other one is
\* created.
C27_TypingKeepsTransport ==
    /\ [][last'.op \in {"typing", "stop_typing", "sweep"}
             => UNCHANGED <<ctl, toServer, thread, composer>>]_vars
    /\ [][(handlersChanged /\ ~handlersChanged')
             => (socket' = socket /\ wsState' = wsState)]_vars

\* C28: the new_message events of a conversation are published in the order of
\* the message ids (an event is published only once the events of the older
\* messages of its conversation are), and the ids of the view's message list
\* ascend, as in the store's chronological list.
C28_PublishedInCreationOrder ==
    /\ \A p \in pubNew :
          \A id \in DOMAIN messages :
              (id < p[1] /\ messages[id].conversationId = p[2])
                  => <<id, p[2]>> \in pubNew
    /\ log.defined =>
          \A i, j \in 1..Len(log.list) : i < j => log.list[i].id < log.list[j].id

\* C29: at most one reconnect timer of the hook is armed, and at most one of
\* its transports is connecting or open.
C29_OneTimerOneTransport ==
    /\ Cardinality(reconnectTimers) <= 1
    /\ Cardinality({k \in Conns : wsState[k] \in {"CONNECTING", "OPEN"}}) <= 1

\* C30: every typing or stop_typing event the server sends carries the userId
\* the connection of the frame is bound to in the registry.
C30_TypingCarriesBoundUser ==
    [][TypingFrame(last') =>
          \A d \in Conns :
              \A i \in 1..Len(sent'[d]) :
                  StrictEq(ParseInt(sent'[d][i].userId),
                           connections[last'.id].userId)]_vars

====
